---- MODULE Spec2Model ----
(***************************************************************************)
(* Search Fusion MCP server: provider health tracking (engines/base.py),   *)
(* the priority/failover dispatcher (search_manager.py), the provider      *)
(* wrappers (engines/*.py) and the request gate of the server (server.py). *)
(*                                                                         *)
(* Time is counted in seconds.  Priorities are the source's floats times   *)
(* ten (1.5 -> 15).  Strings that the code inspects character by character *)
(* are sequences of one-character strings.                                 *)
(***************************************************************************)
EXTENDS Integers, Sequences, FiniteSets, TLC

VARIABLES
    engines,            \* SearchManager.engines: sequence of provider classes
    health,             \* per provider: the SearchEngine health fields
    last_used_engine,   \* SearchManager.last_used_engine ("None" when unset)
    last_search_time,   \* SearchManager.last_search_time
    now,                \* time.time()
    pc,                 \* position of the dispatch call in SearchManager.search
    idx,                \* 1-based position of the priority loop in engines
    query_blank,        \* the call's query is empty or whitespace only
    preferred,          \* the call's preferred_engine argument
    ret,                \* what the call returned ("pending", "raised" or a list)
    trace,              \* history: providers reached by the call, in order
    last_record,        \* history: what the last provider completion recorded
    sem_value,          \* SearchFusionServer._search_semaphore._value
    ops,                \* number of _handle_search calls at each position
    manager_ready,      \* SearchFusionServer.search_manager is not None
    last_init_attempt,  \* SearchFusionServer.last_init_attempt
    response,           \* the last response _handle_search built
    serper_api_key,     \* WebFetcher.serper_api_key is set
    page_cache,         \* WebFetcher.page_cache: its entries in insertion order
    loop_time,          \* asyncio.get_event_loop().time()
    sessions,           \* number of page ids WebFetcher has drawn (uuid4)
    fetch_call,         \* history: the last fetch_url call, what it invoked, its result
    split,              \* a call of _split_content_into_pages and its pages
    scenario,           \* the same call on a long content, by paragraph lengths
    status_call,        \* the last get_available_engines / get_search_stats call
    health_call,        \* history: the last record_success / record_error call
    stats_lock,         \* per provider: SearchEngine._stats_lock is held
    callers,            \* the coroutines in record_success / record_error
    calls,              \* history: per provider, the record calls completed
    fetchers,           \* the coroutines in fetch_url: position, arguments, result
    running,            \* the fetch_url coroutine the event loop is running, or 0
    abandoned,          \* the provider call in flight when a search timed out
    applied             \* history: per provider, the record calls applied

vars == <<engines, health, last_used_engine, last_search_time, now, pc, idx,
          query_blank, preferred, ret, trace, last_record, sem_value, ops,
          manager_ready, last_init_attempt, response, serper_api_key,
          page_cache, loop_time, sessions, fetch_call, split, scenario,
          status_call, health_call, stats_lock, callers, calls, fetchers,
          running, abandoned, applied>>

dispatchVars == <<pc, idx, query_blank, preferred, ret, trace, last_record>>
managerVars  == <<engines, last_used_engine, last_search_time>>
serverVars   == <<sem_value, ops, manager_ready, last_init_attempt, response>>
lockVars     == <<stats_lock, callers, calls>>
loopVars     == <<fetchers, running>>
auxVars      == <<status_call, health_call, lockVars, loopVars, abandoned, applied>>
fetcherVars  == <<serper_api_key, page_cache, loop_time, sessions, fetch_call, split,
                 scenario>>
fetchVars    == <<fetcherVars, auxVars>>

----------------------------------------------------------------------------
(* Bounds of the model *)

MaxItems    == 1     \* items a provider backend returns for one query
MaxRequests == 4     \* recorded requests per provider
StartTime   == 600   \* the clock's first instant (an epoch time is large)
Horizon     == 300   \* seconds of clock the model follows
TickStep    == 150   \* seconds between two observed instants
ExtraOps    == 2     \* search requests beyond the capacity of the gate
MaxCallers  == 2     \* coroutines that call record_success / record_error
MaxCalls    == 2     \* record calls started on one provider
MaxContentLen == 5   \* characters of a content given to the paginator alone
MaxPageLength == 3   \* largest max_length given to the paginator alone
MaxSessions == 2     \* page ids (cache entries) WebFetcher creates
CacheTickStep == 3600 \* seconds between two observed instants of the loop clock
CacheHorizon == 7200  \* seconds of loop clock the model follows

----------------------------------------------------------------------------
(* Strings *)

UpperAlphabet == <<"A","B","C","D","E","F","G","H","I","J","K","L","M",
                   "N","O","P","Q","R","S","T","U","V","W","X","Y","Z">>
LowerAlphabet == <<"a","b","c","d","e","f","g","h","i","j","k","l","m",
                   "n","o","p","q","r","s","t","u","v","w","x","y","z">>

\* str.lower() on one character
LowerChar(c) ==
    IF \E i \in 1..26 : UpperAlphabet[i] = c
    THEN LowerAlphabet[CHOOSE i \in 1..26 : UpperAlphabet[i] = c]
    ELSE c

\* str.lower()
Lower(s) == [i \in 1..Len(s) |-> LowerChar(s[i])]

\* s.startswith(p)
StartsWith(s, p) == Len(p) <= Len(s) /\ SubSeq(s, 1, Len(p)) = p

\* p in s
Contains(s, p) ==
    \E i \in 1..(Len(s) + 1) :
        i + Len(p) - 1 <= Len(s) /\ SubSeq(s, i, i + Len(p) - 1) = p

\* s.replace(p, ''), p not empty: leftmost non-overlapping occurrences go
RECURSIVE Remove(_, _)
Remove(s, p) ==
    IF Len(s) < Len(p) THEN s
    ELSE IF SubSeq(s, 1, Len(p)) = p
         THEN Remove(SubSeq(s, Len(p) + 1, Len(s)), p)
         ELSE <<Head(s)>> \o Remove(Tail(s), p)

search_word == <<"s","e","a","r","c","h">>
auto_word   == <<"a","u","t","o">>

----------------------------------------------------------------------------
(* Provider classes *)

ConcreteClasses == {"GoogleSearch", "SerperSearch", "JinaSearch",
                    "DuckDuckGoSearch", "ExaSearch", "BingSearch",
                    "BaiduSearch"}

\* "SearchEngine" is the provider interface itself: any other implementation
\* of the abstract search(), with the base class's health gate and defaults.
Classes == ConcreteClasses \cup {"SearchEngine"}

\* engine.__class__.__name__
class_name(e) ==
    CASE e = "GoogleSearch"     -> <<"G","o","o","g","l","e">> \o <<"S","e","a","r","c","h">>
      [] e = "SerperSearch"     -> <<"S","e","r","p","e","r">> \o <<"S","e","a","r","c","h">>
      [] e = "JinaSearch"       -> <<"J","i","n","a">> \o <<"S","e","a","r","c","h">>
      [] e = "DuckDuckGoSearch" -> <<"D","u","c","k","D","u","c","k","G","o">>
                                       \o <<"S","e","a","r","c","h">>
      [] e = "ExaSearch"        -> <<"E","x","a">> \o <<"S","e","a","r","c","h">>
      [] e = "BingSearch"       -> <<"B","i","n","g">> \o <<"S","e","a","r","c","h">>
      [] e = "BaiduSearch"      -> <<"B","a","i","d","u">> \o <<"S","e","a","r","c","h">>
      [] OTHER                  -> <<"S","e","a","r","c","h">> \o <<"E","n","g","i","n","e">>

\* self.priority, in tenths
priority(e) ==
    CASE e = "GoogleSearch"     -> 10
      [] e = "SerperSearch"     -> 10
      [] e = "JinaSearch"       -> 15
      [] e = "ExaSearch"        -> 18
      [] e = "DuckDuckGoSearch" -> 20
      [] e = "BingSearch"       -> 30
      [] e = "BaiduSearch"      -> 30
      [] OTHER                  -> 100

\* self.rate_limit_cooldown, in seconds
rate_limit_cooldown(e) ==
    CASE e = "GoogleSearch"     -> 300
      [] e = "SerperSearch"     -> 60
      [] e = "JinaSearch"       -> 60
      [] e = "ExaSearch"        -> 120
      [] e = "DuckDuckGoSearch" -> 300
      [] e = "BingSearch"       -> 300
      [] e = "BaiduSearch"      -> 300
      [] OTHER                  -> 300

\* self.max_error_count
max_error_count == 3

\* SearchResult.source of the class's results
source(e) ==
    CASE e = "GoogleSearch"     -> "google"
      [] e = "SerperSearch"     -> "serper"
      [] e = "JinaSearch"       -> "jina"
      [] e = "ExaSearch"        -> "exa"
      [] e = "DuckDuckGoSearch" -> "duckduckgo"
      [] e = "BingSearch"       -> "bing"
      [] e = "BaiduSearch"      -> "baidu"
      [] OTHER                  -> "engine"

----------------------------------------------------------------------------
(* Health tracker: SearchEngine in engines/base.py *)

\* SearchEngine.__init__
InitialHealth ==
    [error_count |-> 0, last_error_time |-> 0, last_success_time |-> 0,
     total_requests |-> 0, successful_requests |-> 0]

\* SearchEngine.is_in_cooldown on health record h of class e at time t
is_in_cooldown(e, h, t) ==
    IF h.error_count >= max_error_count
    THEN t - h.last_error_time < rate_limit_cooldown(e)
    ELSE FALSE

\* is_available: the base method and the overrides.  A registered Google,
\* Serper, Exa, Bing or Baidu provider has its keys (and Exa its client):
\* _initialize_engines constructs them only when is_engine_enabled found a key.
is_available(e, h, t) == ~is_in_cooldown(e, h, t)

\* mutant: a success is not counted as a request
record_success_uncounted(h, t) ==
    [h EXCEPT !.last_success_time = t,
              !.successful_requests = @ + 1,
              !.error_count = IF @ > 0 THEN 0 ELSE @]

\* mutant: the error count survives a success
record_success_keeps_errors(h, t) ==
    [h EXCEPT !.last_success_time = t,
              !.successful_requests = @ + 1,
              !.total_requests = @ + 1]

\* SearchEngine.record_success, awaited, at time t
record_success(h, t) ==
    [h EXCEPT !.last_success_time = t,
              !.successful_requests = @ + 1,
              !.total_requests = @ + 1,
              !.error_count = IF @ > 0 THEN 0 ELSE @]

\* mutant: the count of errors starts again once the maximum was reached
record_error_restarts_count(h, t, is_rate_limit) ==
    [h EXCEPT !.error_count = IF @ >= max_error_count THEN 1 ELSE @ + 1,
              !.last_error_time = t,
              !.total_requests = @ + 1]

\* mutant: a rate-limit error puts the provider in cooldown at once
record_error_rate_limit_trips(h, t, is_rate_limit) ==
    [h EXCEPT !.error_count = IF is_rate_limit THEN max_error_count ELSE @ + 1,
              !.last_error_time = t,
              !.total_requests = @ + 1]

\* SearchEngine.record_error, awaited, at time t.  is_rate_limit only selects
\* the log line.
record_error(h, t, is_rate_limit) ==
    [h EXCEPT !.error_count = @ + 1,
              !.last_error_time = t,
              !.total_requests = @ + 1]

IsAvailable(e)  == is_available(e, health[e], now)
IsInCooldown(e) == is_in_cooldown(e, health[e], now)

----------------------------------------------------------------------------
(* Provider wrappers: engines/*.py.  A backend answers one request with      *)
(* some items, with no item, or fails (HTTP error, malformed response) or  *)
(* signals a rate limit.  A wrapper turns that into what search() returns  *)
(* to its caller ("raise" when an exception leaves it) and into the health *)
(* update it applies.                                                      *)

BackendOutcomes ==
    [kind : {"items"}, n : 1..MaxItems]
        \cup [kind : {"none", "error", "rate_limit"}, n : {0}]

\* the uniform result list built from n backend items
Items(e, n) == [i \in 1..n |-> [source |-> source(e), item |-> i]]

\* what a call of search() gives its caller: a list, or an exception; and the
\* health update the wrapper applied meanwhile
Returns(list, update) == [raised |-> FALSE, result |-> list, record |-> update]
Raises(update)        == [raised |-> TRUE, result |-> <<>>, record |-> update]

\* self.record_success() / self.record_error() without await: the coroutine
\* object is created and dropped, its body never runs
NotAwaited(update) == "none"

\* await self.record_success() / await self.record_error()
Awaited(update) == update

\* GoogleSearch.search; SerperSearch, JinaSearch and BingSearch have the same
\* shape: try, build results, self.record_success(), return; except
\* Exception: self.record_error(...), return []
GoogleSearch_search(e, o, available) ==
    IF ~available
    THEN Returns(<<>>, "none")
    ELSE IF o.kind \in {"items", "none"}
    THEN Returns(Items(e, o.n), NotAwaited("success"))
    ELSE Returns(<<>>, NotAwaited(IF o.kind = "rate_limit" THEN "rate_limit" ELSE "error"))

\* BaiduSearch.search: no backend call, results = []
BaiduSearch_search(e, o, available) ==
    IF ~available
    THEN Returns(<<>>, "none")
    ELSE Returns(<<>>, NotAwaited("success"))

\* DuckDuckGoSearch._async_search and _sync_search (ExaSearch._async_exa_search
\* and _sync_exa_search alike): except Exception: return []
inner_search(e, o) ==
    IF o.kind = "items" THEN Items(e, o.n) ELSE <<>>

\* mutant: an empty answer is recorded as an error
DuckDuckGoSearch_search_penalises_empty(e, o, blank) ==
    IF blank
    THEN Returns(<<>>, "none")
    ELSE Returns(inner_search(e, o),
                 Awaited(IF inner_search(e, o) = <<>> THEN "error" ELSE "success"))

\* DuckDuckGoSearch.search
DuckDuckGoSearch_search(e, o, blank) ==
    IF blank
    THEN Returns(<<>>, "none")
    ELSE Returns(inner_search(e, o), Awaited("success"))

\* ExaSearch.search
ExaSearch_search(e, o, available) ==
    IF ~available
    THEN Returns(<<>>, "none")
    ELSE Returns(inner_search(e, o), Awaited("success"))

\* SearchEngine.search, the abstract method: an implementation returns a
\* list or raises
SearchEngine_search(e, o) ==
    IF o.kind \in {"items", "none"}
    THEN Returns(Items(e, o.n), "none")
    ELSE Raises("none")

\* await engine.search(query, num_results); available is the wrapper's own
\* is_available() test on entry
engine_search(e, o, blank, available) ==
    CASE e \in {"GoogleSearch", "SerperSearch", "JinaSearch", "BingSearch"}
             -> GoogleSearch_search(e, o, available)
      [] e = "BaiduSearch"      -> BaiduSearch_search(e, o, available)
      [] e = "DuckDuckGoSearch" -> DuckDuckGoSearch_search(e, o, blank)
      [] e = "ExaSearch"        -> ExaSearch_search(e, o, available)
      [] OTHER                  -> SearchEngine_search(e, o)

\* the health record after the wrapper's update
apply_record(h, t, update) ==
    CASE update = "success"    -> record_success(h, t)
      [] update = "error"      -> record_error(h, t, FALSE)
      [] update = "rate_limit" -> record_error(h, t, TRUE)
      [] OTHER                 -> h

\* the record calls a health state shows to have been applied
calls_shown(h) ==
    [success |-> h.successful_requests,
     error |-> h.total_requests - h.successful_requests,
     since_success |-> h.error_count]

\* the history after one more record call
count_record(a, update) ==
    CASE update = "success" ->
             [a EXCEPT !.success = @ + 1, !.since_success = 0]
      [] update \in {"error", "rate_limit"} ->
             [a EXCEPT !.error = @ + 1, !.since_success = @ + 1]
      [] OTHER -> a

----------------------------------------------------------------------------
(* Dispatcher: SearchManager in search_manager.py *)

\* the order in which _initialize_engines appends the providers
RegistrationOrder ==
    <<"GoogleSearch", "SerperSearch", "JinaSearch", "DuckDuckGoSearch",
      "ExaSearch", "BingSearch", "BaiduSearch", "SearchEngine">>

\* _initialize_engines when exactly the classes of S get constructed
initialize_engines(S) == SelectSeq(RegistrationOrder, LAMBDA e : e \in S)

\* mutant: the sort puts a provider before those of equal priority
RECURSIVE insert_by_priority_unstable(_, _)
insert_by_priority_unstable(sorted, e) ==
    IF sorted = <<>> THEN <<e>>
    ELSE IF priority(sorted[Len(sorted)]) < priority(e)
         THEN Append(sorted, e)
         ELSE Append(insert_by_priority_unstable(SubSeq(sorted, 1, Len(sorted) - 1), e),
                     sorted[Len(sorted)])

\* list.sort(key=lambda x: x.priority): stable, ascending
RECURSIVE insert_by_priority(_, _)
insert_by_priority(sorted, e) ==
    IF sorted = <<>> THEN <<e>>
    ELSE IF priority(sorted[Len(sorted)]) <= priority(e)
         THEN Append(sorted, e)
         ELSE Append(insert_by_priority(SubSeq(sorted, 1, Len(sorted) - 1), e),
                     sorted[Len(sorted)])

\* mutant: the sort is left out
registration_order(seq) == seq

RECURSIVE sort_by_priority(_)
sort_by_priority(seq) ==
    IF seq = <<>> THEN <<>>
    ELSE insert_by_priority(sort_by_priority(SubSeq(seq, 1, Len(seq) - 1)),
                            seq[Len(seq)])

\* SearchManager.__init__
new_engines(S) == sort_by_priority(initialize_engines(S))

\* mutant: a name matches as the class name, as the start of it or as the
\* class name without 'search' only
name_matches_listed(e, engine_name_lower) ==
    LET class_lower == Lower(class_name(e))
    IN  \/ engine_name_lower = class_lower
        \/ StartsWith(class_lower, engine_name_lower)
        \/ engine_name_lower = Remove(class_lower, search_word)

\* the test of _find_engine_by_name on one engine
name_matches(e, engine_name_lower) ==
    LET class_lower == Lower(class_name(e))
    IN  \/ Contains(class_lower, engine_name_lower)
        \/ StartsWith(class_lower, engine_name_lower)
        \/ engine_name_lower = Remove(class_lower, search_word)

\* SearchManager._find_engine_by_name
find_engine_by_name(engine_name) ==
    LET hits == {i \in 1..Len(engines) : name_matches(engines[i], Lower(engine_name))}
    IN  IF hits = {} THEN "None"
        ELSE engines[CHOOSE i \in hits : \A j \in hits : i <= j]

\* the preferred_engine arguments the model tries
PreferredNames ==
    { auto_word,
      <<"G","o","o","g","l","e">>,
      <<"d","u","c","k","d","u","c","k","g","o">>,
      <<"e","n","g","i","n","e">>,
      <<"y","a","h","o","o">> }

\* SearchFusionServer._handle_search: the response built from what
\* search_manager.search returned or raised
NoResponse ==
    [sent |-> FALSE, success |-> FALSE, error |-> "", num_results |-> 0,
     message |-> "", suggestion |-> ""]

\* SearchFusionServer._error_response
error_response(msg) ==
    [sent |-> TRUE, success |-> FALSE, error |-> msg, num_results |-> 0,
     message |-> "", suggestion |-> "Please try again later"]

handle_search_response(r) ==
    IF r.status = "raised"
    THEN error_response("Search failed")
    ELSE [sent |-> TRUE, success |-> TRUE, error |-> "",
          num_results |-> Len(r.results),
          message |-> IF r.results = <<>> THEN "No results found" ELSE "",
          suggestion |-> ""]

\* what search() gave _handle_search
Pending        == [status |-> "pending", results |-> <<>>]
Returned(list) == [status |-> "returned", results |-> list]
Raised         == [status |-> "raised", results |-> <<>>]

\* history of one provider completion: the backend's answer, what search()
\* returned, the health update applied
NoRecord == [engine |-> "None", outcome |-> "none", update |-> "none", result |-> <<>>]
Completion(e, o, r) ==
    [engine |-> e, outcome |-> o.kind, update |-> r.record, result |-> r.result]

\* one entry of the call's history
Reached(e, phase, kind) ==
    [engine |-> e, phase |-> phase, kind |-> kind, cooldown |-> IsInCooldown(e)]

SetLastKind(tr, kind) == [tr EXCEPT ![Len(tr)].kind = kind]

\* mutant: the preferred engine is used without asking is_available()
preferred_target_unchecked(engine_name) ==
    IF Lower(engine_name) # auto_word
    THEN find_engine_by_name(engine_name)
    ELSE "None"

\* the branch of the preferred-engine step: the engine to invoke, or "None"
preferred_target(engine_name) ==
    IF Lower(engine_name) # auto_word
    THEN LET target_engine == find_engine_by_name(engine_name)
         IN  IF target_engine # "None" /\ IsAvailable(target_engine)
             THEN target_engine
             ELSE "None"
    ELSE "None"

\* search(): lines 141-154, up to the await on the preferred engine
SearchStart(blank, engine_name) ==
    /\ pc = "idle"
    /\ query_blank' = blank
    /\ preferred' = engine_name
    /\ IF engines = <<>>
       THEN /\ ret' = Returned(<<>>)
            /\ pc' = "done"
            /\ response' = handle_search_response(Returned(<<>>))
            /\ UNCHANGED <<last_search_time, trace, idx>>
       ELSE /\ last_search_time' = now
            /\ ret' = Pending
            /\ response' = NoResponse
            /\ LET target == preferred_target(engine_name)
               IN  IF target # "None"
                   THEN /\ trace' = <<Reached(target, "preferred", "call")>>
                        /\ pc' = "preferred_call"
                        /\ idx' = 0
                   ELSE /\ trace' = <<>>
                        /\ pc' = "loop"
                        /\ idx' = 1
    /\ UNCHANGED <<fetchVars, engines, health, last_used_engine, now, last_record,
                   sem_value, ops, manager_ready, last_init_attempt>>

\* BaiduSearch.search calls no backend, nor does DuckDuckGoSearch.search on a
\* blank query: nothing can fail there
BackendAnswers(e, o, blank) ==
    (e = "BaiduSearch" \/ (e = "DuckDuckGoSearch" /\ blank)) => o.kind = "none"

\* the requests counter of a provider stays within the model's bound
CanRecord(e, update) ==
    update # "none" => health[e].total_requests < MaxRequests

\* search(): lines 154-159, the preferred engine's answer
PreferredReturn(o) ==
    /\ pc = "preferred_call"
    /\ LET e == trace[1].engine
           r == engine_search(e, o, query_blank, ~trace[1].cooldown)
       IN  /\ BackendAnswers(e, o, query_blank)
           /\ CanRecord(e, r.record)
           /\ health' = [health EXCEPT ![e] = apply_record(@, now, r.record)]
           /\ applied' = [applied EXCEPT ![e] = count_record(@, r.record)]
           /\ last_record' = Completion(e, o, r)
           /\ IF r.raised
              THEN /\ ret' = Raised
                   /\ pc' = "done"
                   /\ response' = handle_search_response(Raised)
                   /\ trace' = SetLastKind(trace, "raise")
                   /\ UNCHANGED <<last_used_engine, idx>>
              ELSE IF r.result # <<>>
              THEN /\ last_used_engine' = e
                   /\ ret' = Returned(r.result)
                   /\ pc' = "done"
                   /\ response' = handle_search_response(Returned(r.result))
                   /\ trace' = SetLastKind(trace, "hit")
                   /\ UNCHANGED idx
              ELSE /\ pc' = "loop"
                   /\ idx' = 1
                   /\ trace' = SetLastKind(trace, "empty")
                   /\ UNCHANGED <<last_used_engine, ret, response>>
    /\ UNCHANGED <<fetcherVars, status_call, health_call, lockVars, loopVars,
                   abandoned, engines, last_search_time, now, query_blank, preferred,
                   sem_value, ops, manager_ready, last_init_attempt>>

\* mutant: the continue is missing, an unavailable engine is invoked
LoopSkip_invokes ==
    /\ pc = "loop"
    /\ idx <= Len(engines)
    /\ ~IsAvailable(engines[idx])
    /\ trace' = Append(trace, Reached(engines[idx], "loop", "call"))
    /\ pc' = "loop_call"
    /\ UNCHANGED <<fetchVars, engines, health, last_used_engine, last_search_time, now,
                   idx, query_blank, preferred, ret, last_record, serverVars>>

\* mutant: the loop leaves out the engine that was tried as the preferred one
LoopSkip_excludes_preferred ==
    /\ pc = "loop"
    /\ idx <= Len(engines)
    /\ \/ ~IsAvailable(engines[idx])
       \/ (trace # <<>> /\ trace[1].phase = "preferred"
              /\ trace[1].engine = engines[idx])
    /\ trace' = Append(trace, Reached(engines[idx], "loop", "skip"))
    /\ idx' = idx + 1
    /\ UNCHANGED <<fetchVars, engines, health, last_used_engine, last_search_time, now,
                   pc, query_blank, preferred, ret, last_record, serverVars>>

\* search(): lines 162-164, an unavailable engine is passed
LoopSkip ==
    /\ pc = "loop"
    /\ idx <= Len(engines)
    /\ ~IsAvailable(engines[idx])
    /\ trace' = Append(trace, Reached(engines[idx], "loop", "skip"))
    /\ idx' = idx + 1
    /\ UNCHANGED <<fetchVars, engines, health, last_used_engine, last_search_time, now,
                   pc, query_blank, preferred, ret, last_record, serverVars>>

\* search(): lines 162-169, up to the await on the engine
LoopCall ==
    /\ pc = "loop"
    /\ idx <= Len(engines)
    /\ IsAvailable(engines[idx])
    /\ trace' = Append(trace, Reached(engines[idx], "loop", "call"))
    /\ pc' = "loop_call"
    /\ UNCHANGED <<fetchVars, engines, health, last_used_engine, last_search_time, now,
                   idx, query_blank, preferred, ret, last_record, serverVars>>

\* search(): lines 169-180, the engine's answer
LoopReturn(o) ==
    /\ pc = "loop_call"
    /\ LET e == engines[idx]
           r == engine_search(e, o, query_blank, ~trace[Len(trace)].cooldown)
       IN  /\ BackendAnswers(e, o, query_blank)
           /\ CanRecord(e, r.record)
           /\ health' = [health EXCEPT ![e] = apply_record(@, now, r.record)]
           /\ applied' = [applied EXCEPT ![e] = count_record(@, r.record)]
           /\ last_record' = Completion(e, o, r)
           /\ IF r.raised
              THEN /\ pc' = "loop"
                   /\ idx' = idx + 1
                   /\ trace' = SetLastKind(trace, "raise")
                   /\ UNCHANGED <<last_used_engine, ret, response>>
              ELSE IF r.result # <<>>
              THEN /\ last_used_engine' = e
                   /\ ret' = Returned(r.result)
                   /\ pc' = "done"
                   /\ response' = handle_search_response(Returned(r.result))
                   /\ trace' = SetLastKind(trace, "hit")
                   /\ UNCHANGED idx
              ELSE /\ pc' = "loop"
                   /\ idx' = idx + 1
                   /\ trace' = SetLastKind(trace, "empty")
                   /\ UNCHANGED <<last_used_engine, ret, response>>
    /\ UNCHANGED <<fetcherVars, status_call, health_call, lockVars, loopVars,
                   abandoned, engines, last_search_time, now, query_blank, preferred,
                   sem_value, ops, manager_ready, last_init_attempt>>

\* search(): lines 182-183, every engine was passed, failed or empty
LoopExhausted ==
    /\ pc = "loop"
    /\ idx > Len(engines)
    /\ ret' = Returned(<<>>)
    /\ pc' = "done"
    /\ response' = handle_search_response(Returned(<<>>))
    /\ UNCHANGED <<fetchVars, engines, health, last_used_engine, last_search_time, now,
                   idx, query_blank, preferred, trace, last_record,
                   sem_value, ops, manager_ready, last_init_attempt>>

\* the caller has its response; the next call may start
SearchFinish ==
    /\ pc = "done"
    /\ pc' = "idle"
    /\ idx' = 0
    /\ ret' = Pending
    /\ trace' = <<>>
    /\ response' = NoResponse
    /\ query_blank' = FALSE
    /\ preferred' = auto_word
    /\ last_record' = NoRecord
    /\ UNCHANGED <<fetchVars, engines, health, last_used_engine, last_search_time, now,
                   sem_value, ops, manager_ready, last_init_attempt>>

----------------------------------------------------------------------------
(* Environment: other callers of the health tracker, and the clock *)

\* await engine.record_error(is_rate_limit)
RecordError(e, is_rate_limit) ==
    /\ health[e].total_requests < MaxRequests
    /\ health' = [health EXCEPT ![e] = record_error(@, now, is_rate_limit)]
    /\ health_call' = [op |-> "record_error", engine |-> e,
                       is_rate_limit |-> is_rate_limit]
    /\ applied' = [applied EXCEPT ![e] = count_record(@, "error")]
    /\ UNCHANGED <<fetcherVars, status_call, lockVars, loopVars, abandoned, managerVars, now,
                   dispatchVars, serverVars>>

\* await engine.record_success()
RecordSuccess(e) ==
    /\ health[e].total_requests < MaxRequests
    /\ health' = [health EXCEPT ![e] = record_success(@, now)]
    /\ health_call' = [op |-> "record_success", engine |-> e, is_rate_limit |-> FALSE]
    /\ applied' = [applied EXCEPT ![e] = count_record(@, "success")]
    /\ UNCHANGED <<fetcherVars, status_call, lockVars, loopVars, abandoned, managerVars, now,
                   dispatchVars, serverVars>>

\* time passes
Tick ==
    /\ now + TickStep <= StartTime + Horizon
    /\ now' = now + TickStep
    /\ UNCHANGED <<fetchVars, managerVars, health, dispatchVars, serverVars>>

Registered == {engines[i] : i \in 1..Len(engines)}

----------------------------------------------------------------------------
(* Spec: one dispatcher, its providers and their health trackers *)

\* SearchFusionServer._search_semaphore = asyncio.Semaphore(30)
SemaphoreCapacity == 30

\* WebFetcher.__init__ (lines 24-42), and no call made yet
NoResult ==
    [success |-> FALSE, error |-> "", content |-> <<>>, method |-> "none",
     is_paginated |-> FALSE, pages |-> 0, current_page |-> 0, total_length |-> 0]

NoFetch ==
    [called |-> FALSE, url |-> "none", page_number |-> 0, use_jina |-> FALSE,
     max_length |-> 0, invoked |-> <<>>, got |-> <<>>, swept |-> {},
     result |-> NoResult]

NoSplit == [content |-> <<>>, max_length |-> 0, done |-> FALSE, pages |-> <<>>]

NoScenario == [paragraphs |-> <<>>, max_length |-> 0, done |-> FALSE, pages |-> <<>>]

\* no status call made yet
NoStats ==
    [total_engines |-> 0, available_engines |-> 0, total_requests |-> 0,
     successful_requests |-> 0, success_rate |-> 0, last_search_time |-> 0,
     last_used_engine |-> "None"]

NoStatus == [op |-> "none", engines |-> <<>>, error |-> "", stats |-> NoStats]

\* no health call made yet
NoHealthCall == [op |-> "none", engine |-> "None", is_rate_limit |-> FALSE]

\* a coroutine that is in no record call
NoCall ==
    [pc |-> "idle", engine |-> "None", op |-> "none", tmp |-> 0,
     before |-> InitialHealth]

Callers == 1..MaxCallers

\* no search has timed out
NoAbandoned == [engine |-> "None", state |-> "none", update |-> "none"]

\* a coroutine that is in no fetch_url call
NoFetcher ==
    [pc |-> "idle", url |-> "none", page_number |-> 0, use_jina |-> FALSE,
     max_length |-> 0,
     got |-> [method |-> "none", success |-> FALSE, content |-> <<>>, error |-> ""],
     result |-> NoResult]

\* the coroutines that call fetch_url concurrently
Fetchers == {1, 2}

AuxIdle ==
    /\ status_call = NoStatus
    /\ health_call = NoHealthCall
    /\ stats_lock = [e \in Classes |-> FALSE]
    /\ callers = [p \in Callers |-> NoCall]
    /\ calls = [e \in Classes |-> [error |-> 0, success |-> 0]]
    /\ fetchers = [p \in Fetchers |-> NoFetcher]
    /\ running = 0
    /\ abandoned = NoAbandoned
    /\ applied = [e \in Classes |-> calls_shown(health[e])]

FetcherIdle ==
    /\ serper_api_key = FALSE
    /\ page_cache = <<>>
    /\ loop_time = 0
    /\ sessions = 0
    /\ fetch_call = NoFetch
    /\ split = NoSplit
    /\ scenario = NoScenario
    /\ AuxIdle

ServerIdle ==
    /\ sem_value = SemaphoreCapacity
    /\ ops = [l \in {"sem_wait", "ensure", "search"} |-> 0]
    /\ manager_ready = TRUE
    /\ last_init_attempt = 0
    /\ response = NoResponse

\* The provider sets the model constructs a dispatcher from.  Jina and
\* DuckDuckGo need no key; the others are registered when their key is
\* configured; every constructor sits in a try/except that drops the provider.
Registrations ==
    { {} }
        \cup { {c} : c \in Classes }
        \cup { {"JinaSearch", "DuckDuckGoSearch"},
               {"GoogleSearch", "DuckDuckGoSearch", "BingSearch"},
               {"DuckDuckGoSearch", "ExaSearch", "BaiduSearch"},
               {"SerperSearch", "JinaSearch", "SearchEngine"} }

\* k record_error calls, at time t, on a fresh health record
RECURSIVE errors_recorded(_, _)
errors_recorded(k, t) ==
    IF k = 0 THEN InitialHealth
    ELSE record_error(errors_recorded(k - 1, t), t, FALSE)

Init ==
    /\ \E S \in Registrations :
           /\ engines = new_engines(S)
           /\ \E k \in [S -> {0, max_error_count}] :
                  health = [e \in Classes |->
                               IF e \in S THEN errors_recorded(k[e], StartTime)
                                          ELSE InitialHealth]
    /\ last_used_engine = "None"
    /\ last_search_time = 0
    /\ now = StartTime
    /\ pc = "idle"
    /\ idx = 0
    /\ query_blank = FALSE
    /\ preferred = auto_word
    /\ ret = Pending
    /\ trace = <<>>
    /\ last_record = NoRecord
    /\ ServerIdle
    /\ FetcherIdle

Next ==
    \/ \E blank \in BOOLEAN, engine_name \in PreferredNames :
           SearchStart(blank, engine_name)
    \/ \E o \in BackendOutcomes : PreferredReturn(o)
    \/ LoopSkip
    \/ LoopCall
    \/ \E o \in BackendOutcomes : LoopReturn(o)
    \/ LoopExhausted
    \/ SearchFinish
    \/ Tick

Spec == Init /\ [][Next]_vars

----------------------------------------------------------------------------
(* SpecHealth: the health tracker of one provider under its three calls *)

InitHealth ==
    /\ \E c \in Classes : engines = new_engines({c})
    /\ health = [e \in Classes |-> InitialHealth]
    /\ last_used_engine = "None"
    /\ last_search_time = 0
    /\ now = StartTime
    /\ pc = "idle"
    /\ idx = 0
    /\ query_blank = FALSE
    /\ preferred = auto_word
    /\ ret = Pending
    /\ trace = <<>>
    /\ last_record = NoRecord
    /\ ServerIdle
    /\ FetcherIdle

NextHealth ==
    \/ \E e \in Registered, is_rate_limit \in BOOLEAN : RecordError(e, is_rate_limit)
    \/ \E e \in Registered : RecordSuccess(e)
    \/ Tick

SpecHealth == InitHealth /\ [][NextHealth]_vars

----------------------------------------------------------------------------
(* SpecLock: record_success and record_error statement by statement, under *)
(* the provider's _stats_lock.  A coroutine may be suspended before any    *)
(* statement and an augmented assignment is a load and a store: more       *)
(* interleavings than the event loop makes, which suspends a coroutine     *)
(* only at an await.                                                       *)

\* the statement after pc in the body of record_success / record_error
next_statement(op, at) ==
    IF op = "success"
    THEN CASE at = "acquire"          -> "success_time"
           [] at = "success_time"     -> "successful_load"
           [] at = "successful_load"  -> "successful_store"
           [] at = "successful_store" -> "total_load"
           [] at = "total_load"       -> "total_store"
           [] at = "total_store"      -> "reset"
           [] OTHER                   -> "release"
    ELSE CASE at = "acquire"          -> "errors_load"
           [] at = "errors_load"      -> "errors_store"
           [] at = "errors_store"     -> "error_time"
           [] at = "error_time"       -> "total_load"
           [] at = "total_load"       -> "total_store"
           [] OTHER                   -> "release"

\* the field an augmented assignment reads and writes
counter_of(at) ==
    CASE at \in {"successful_load", "successful_store"} -> "successful_requests"
      [] at \in {"errors_load", "errors_store"}         -> "error_count"
      [] OTHER                                          -> "total_requests"

Advance(p) == [callers EXCEPT ![p].pc = next_statement(callers[p].op, callers[p].pc)]

\* a coroutine calls engine.record_success() or engine.record_error()
CallStart(p, e, op) ==
    /\ callers[p].pc = "idle"
    /\ Cardinality({q \in Callers : callers[q].engine = e})
           + calls[e].error + calls[e].success < MaxCalls
    /\ callers' = [callers EXCEPT ![p] = [NoCall EXCEPT !.pc = "acquire",
                                                        !.engine = e, !.op = op]]
    /\ UNCHANGED <<fetcherVars, status_call, health_call, loopVars, abandoned,
                   applied, stats_lock, calls,
                   managerVars, health, now, dispatchVars, serverVars>>

\* mutant: the body is entered whether or not the lock is held
LockAcquire_unlocked(p) ==
    /\ callers[p].pc = "acquire"
    /\ stats_lock' = [stats_lock EXCEPT ![callers[p].engine] = TRUE]
    /\ callers' = [Advance(p) EXCEPT ![p].before = health[callers[p].engine]]
    /\ UNCHANGED <<fetcherVars, status_call, health_call, loopVars, abandoned,
                   applied, calls,
                   managerVars, health, now, dispatchVars, serverVars>>

\* async with self._stats_lock, entry: the lock of this provider is free
LockAcquire(p) ==
    /\ callers[p].pc = "acquire"
    /\ ~stats_lock[callers[p].engine]
    /\ stats_lock' = [stats_lock EXCEPT ![callers[p].engine] = TRUE]
    /\ callers' = [Advance(p) EXCEPT ![p].before = health[callers[p].engine]]
    /\ UNCHANGED <<fetcherVars, status_call, health_call, loopVars, abandoned,
                   applied, calls,
                   managerVars, health, now, dispatchVars, serverVars>>

\* self.last_success_time = time.time() / self.last_error_time = time.time()
SetTime(p) ==
    /\ callers[p].pc \in {"success_time", "error_time"}
    /\ health' = [health EXCEPT ![callers[p].engine] =
                      IF callers[p].pc = "success_time"
                      THEN [@ EXCEPT !.last_success_time = now]
                      ELSE [@ EXCEPT !.last_error_time = now]]
    /\ callers' = Advance(p)
    /\ UNCHANGED <<fetcherVars, status_call, health_call, loopVars, abandoned,
                   applied, stats_lock, calls,
                   managerVars, now, dispatchVars, serverVars>>

\* counter += 1, the read
Load(p) ==
    /\ callers[p].pc \in {"successful_load", "errors_load", "total_load"}
    /\ callers' = [Advance(p) EXCEPT
                       ![p].tmp = health[callers[p].engine][counter_of(callers[p].pc)]]
    /\ UNCHANGED <<fetcherVars, status_call, health_call, loopVars, abandoned,
                   applied, stats_lock, calls,
                   managerVars, health, now, dispatchVars, serverVars>>

\* counter += 1, the write
Store(p) ==
    /\ callers[p].pc \in {"successful_store", "errors_store", "total_store"}
    /\ health' = [health EXCEPT ![callers[p].engine][counter_of(callers[p].pc)] =
                      callers[p].tmp + 1]
    /\ callers' = Advance(p)
    /\ UNCHANGED <<fetcherVars, status_call, health_call, loopVars, abandoned,
                   applied, stats_lock, calls,
                   managerVars, now, dispatchVars, serverVars>>

\* if self.error_count > 0: self.error_count = 0
ResetErrors(p) ==
    /\ callers[p].pc = "reset"
    /\ health' = [health EXCEPT ![callers[p].engine].error_count =
                      IF @ > 0 THEN 0 ELSE @]
    /\ callers' = Advance(p)
    /\ UNCHANGED <<fetcherVars, status_call, health_call, loopVars, abandoned,
                   applied, stats_lock, calls,
                   managerVars, now, dispatchVars, serverVars>>

\* async with self._stats_lock, exit; the call returns
LockRelease(p) ==
    /\ callers[p].pc = "release"
    /\ stats_lock' = [stats_lock EXCEPT ![callers[p].engine] = FALSE]
    /\ calls' = [calls EXCEPT ![callers[p].engine][callers[p].op] = @ + 1]
    /\ callers' = [callers EXCEPT ![p] = NoCall]
    /\ UNCHANGED <<fetcherVars, status_call, health_call, loopVars, abandoned, applied,
                   managerVars, health, now, dispatchVars, serverVars>>

\* a dispatcher with the two providers that need no key, their health fresh
InitLock ==
    /\ Init
    /\ engines = new_engines({"JinaSearch", "DuckDuckGoSearch"})
    /\ health = [e \in Classes |-> InitialHealth]

NextLock ==
    \/ \E p \in Callers, e \in Registered, op \in {"success", "error"} :
           CallStart(p, e, op)
    \/ \E p \in Callers : LockAcquire(p)
    \/ \E p \in Callers : SetTime(p)
    \/ \E p \in Callers : Load(p)
    \/ \E p \in Callers : Store(p)
    \/ \E p \in Callers : ResetErrors(p)
    \/ \E p \in Callers : LockRelease(p)

SpecLock == InitLock /\ [][NextLock]_vars

----------------------------------------------------------------------------
(* SpecGate: SearchFusionServer._handle_search, the semaphore and the lazy *)
(* construction of the dispatcher.  The requests are anonymous: ops counts *)
(* those waiting for a slot, those at _ensure_search_manager and those     *)
(* awaiting search_manager.search.                                         *)

\* SearchFusionServer.init_cooldown
init_cooldown == 30

\* requests that hold a slot of the semaphore
Inside == ops.ensure + ops.search

\* requests present in the server
Present == ops.sem_wait + Inside

\* mutant: the request enters without taking a slot
Arrive_ungated ==
    /\ Present < SemaphoreCapacity + ExtraOps
    /\ ops' = [ops EXCEPT !.ensure = @ + 1]
    /\ UNCHANGED <<fetchVars, managerVars, health, now, dispatchVars, sem_value,
                   manager_ready, last_init_attempt, response>>

\* _handle_search: async with self._search_semaphore, on arrival
Arrive ==
    /\ Present < SemaphoreCapacity + ExtraOps
    /\ IF sem_value > 0
       THEN /\ sem_value' = sem_value - 1
            /\ ops' = [ops EXCEPT !.ensure = @ + 1]
       ELSE /\ ops' = [ops EXCEPT !.sem_wait = @ + 1]
            /\ UNCHANGED sem_value
    /\ UNCHANGED <<fetchVars, managerVars, health, now, dispatchVars,
                   manager_ready, last_init_attempt, response>>

\* a waiting request is given a released slot
Wake ==
    /\ ops.sem_wait > 0
    /\ sem_value > 0
    /\ sem_value' = sem_value - 1
    /\ ops' = [ops EXCEPT !.sem_wait = @ - 1, !.ensure = @ + 1]
    /\ UNCHANGED <<fetchVars, managerVars, health, now, dispatchVars,
                   manager_ready, last_init_attempt, response>>

\* _ensure_search_manager: the dispatcher exists
EnsureReady ==
    /\ ops.ensure > 0
    /\ manager_ready
    /\ ops' = [ops EXCEPT !.ensure = @ - 1, !.search = @ + 1]
    /\ UNCHANGED <<fetchVars, managerVars, health, now, dispatchVars, sem_value,
                   manager_ready, last_init_attempt, response>>

\* mutant: neither check of search_manager is made before constructing
EnsureConstruct_unchecked(constructed) ==
    /\ ops.ensure > 0
    /\ now - last_init_attempt >= init_cooldown
    /\ last_init_attempt' = now
    /\ manager_ready' = constructed
    /\ IF constructed
       THEN /\ ops' = [ops EXCEPT !.ensure = @ - 1, !.search = @ + 1]
            /\ UNCHANGED <<sem_value, response>>
       ELSE /\ ops' = [ops EXCEPT !.ensure = @ - 1]
            /\ sem_value' = sem_value + 1
            /\ response' = error_response("Search manager unavailable, please try again later")
    /\ UNCHANGED <<fetchVars, managerVars, health, now, dispatchVars>>

\* _ensure_search_manager: construction is tried; constructed says whether
\* SearchManager() returned or raised
EnsureConstruct(constructed) ==
    /\ ops.ensure > 0
    /\ ~manager_ready
    /\ now - last_init_attempt >= init_cooldown
    /\ last_init_attempt' = now
    /\ manager_ready' = constructed
    /\ IF constructed
       THEN /\ ops' = [ops EXCEPT !.ensure = @ - 1, !.search = @ + 1]
            /\ UNCHANGED <<sem_value, response>>
       ELSE /\ ops' = [ops EXCEPT !.ensure = @ - 1]
            /\ sem_value' = sem_value + 1
            /\ response' = error_response("Search manager unavailable, please try again later")
    /\ UNCHANGED <<fetchVars, managerVars, health, now, dispatchVars>>

\* mutant: a caller within the cooldown constructs the dispatcher
EnsureCooldown_retries ==
    /\ ops.ensure > 0
    /\ ~manager_ready
    /\ now - last_init_attempt < init_cooldown
    /\ manager_ready' = TRUE
    /\ last_init_attempt' = now
    /\ ops' = [ops EXCEPT !.ensure = @ - 1, !.search = @ + 1]
    /\ UNCHANGED <<fetchVars, managerVars, health, now, dispatchVars,
                   sem_value, response>>

\* _ensure_search_manager: the last construction failed less than
\* init_cooldown ago
EnsureCooldown ==
    /\ ops.ensure > 0
    /\ ~manager_ready
    /\ now - last_init_attempt < init_cooldown
    /\ ops' = [ops EXCEPT !.ensure = @ - 1]
    /\ sem_value' = sem_value + 1
    /\ response' = error_response("Search manager unavailable, please try again later")
    /\ UNCHANGED <<fetchVars, managerVars, health, now, dispatchVars,
                   manager_ready, last_init_attempt>>

\* what the awaited search_manager.search can give _handle_search
SearchEndings ==
    { Returned(<<>>), Returned(Items("SearchEngine", 1)), Raised,
      [status |-> "timeout", results |-> <<>>] }

\* mutant: asyncio.TimeoutError is not told from a returned list
SearchEnds_unlabelled(r) ==
    /\ ops.search > 0
    /\ ops' = [ops EXCEPT !.search = @ - 1]
    /\ sem_value' = sem_value + 1
    /\ response' = handle_search_response(r)
    /\ ret' = r
    /\ UNCHANGED <<fetchVars, managerVars, health, now, pc, idx, query_blank,
                   preferred, trace, last_record, manager_ready,
                   last_init_attempt>>

\* mutant: the slot is given back after the awaited search instead of by
\* async with, so a timeout or an exception keeps it
SearchEnds_slot_kept(r) ==
    /\ ops.search > 0
    /\ ops' = [ops EXCEPT !.search = @ - 1]
    /\ sem_value' = IF r.status = "returned" THEN sem_value + 1 ELSE sem_value
    /\ response' = IF r.status = "timeout"
                   THEN error_response("Search operation timed out")
                   ELSE handle_search_response(r)
    /\ ret' = r
    /\ UNCHANGED <<fetchVars, managerVars, health, now, pc, idx, query_blank,
                   preferred, trace, last_record, manager_ready,
                   last_init_attempt>>

\* _handle_search: lines 195-238, the search ends and the slot is released
SearchEnds(r) ==
    /\ ops.search > 0
    /\ ops' = [ops EXCEPT !.search = @ - 1]
    /\ sem_value' = sem_value + 1
    /\ response' = IF r.status = "timeout"
                   THEN error_response("Search operation timed out")
                   ELSE handle_search_response(r)
    /\ ret' = r
    /\ UNCHANGED <<fetchVars, managerVars, health, now, pc, idx, query_blank,
                   preferred, trace, last_record, manager_ready,
                   last_init_attempt>>

InitGate ==
    /\ engines = <<>>
    /\ health = [e \in Classes |-> InitialHealth]
    /\ last_used_engine = "None"
    /\ last_search_time = 0
    /\ now = StartTime
    /\ pc = "idle"
    /\ idx = 0
    /\ query_blank = FALSE
    /\ preferred = auto_word
    /\ ret = Pending
    /\ trace = <<>>
    /\ last_record = NoRecord
    /\ sem_value = SemaphoreCapacity
    /\ ops = [l \in {"sem_wait", "ensure", "search"} |-> 0]
    /\ manager_ready = FALSE
    /\ last_init_attempt = 0
    /\ response = NoResponse
    /\ FetcherIdle

NextGate ==
    \/ Arrive
    \/ Wake
    \/ EnsureReady
    \/ \E constructed \in BOOLEAN : EnsureConstruct(constructed)
    \/ EnsureCooldown
    \/ \E r \in SearchEndings : SearchEnds(r)
    \/ Tick

SpecGate == InitGate /\ [][NextGate]_vars

\* the event loop runs every coroutine that can go on:
\* _ensure_search_manager returns, and search() ends, after 60 seconds at
\* the latest; asyncio.Semaphore wakes its waiters first in, first out, so
\* a waiter is not passed over by later arrivals for ever
GateFairness ==
    /\ SF_vars(Wake)
    /\ WF_vars(EnsureReady)
    /\ WF_vars(\E constructed \in BOOLEAN : EnsureConstruct(constructed))
    /\ WF_vars(EnsureCooldown)
    /\ WF_vars(\E r \in SearchEndings : SearchEnds(r))

SpecGateLive == SpecGate /\ GateFairness

----------------------------------------------------------------------------
(* SpecStatus: the dispatcher with its status and statistics calls.  A     *)
(* status call is looked at while no dispatch step is taken; StatusDone    *)
(* lets the searches go on.                                                *)

\* SearchEngine.get_success_rate under the format '.1f', in tenths of a
\* percent (round-half-even, as the format rounds)
success_rate(successful, total) ==
    IF total = 0 THEN 0
    ELSE LET q == (successful * 1000) \div total
             r == (successful * 1000) % total
         IN  IF 2 * r > total \/ (2 * r = total /\ q % 2 = 1) THEN q + 1 ELSE q

\* SearchEngine.get_status, when its coroutine is run
get_status(e, h, t) ==
    [awaited |-> TRUE, name |-> e, priority |-> priority(e),
     available |-> is_available(e, h, t), in_cooldown |-> is_in_cooldown(e, h, t),
     error_count |-> h.error_count,
     success_rate |-> success_rate(h.successful_requests, h.total_requests),
     total_requests |-> h.total_requests, last_success |-> h.last_success_time,
     last_error |-> h.last_error_time]

\* engine.get_status() without await: the coroutine object, whose body has
\* not run
get_status_coroutine(e) ==
    [awaited |-> FALSE, name |-> e, priority |-> 0, available |-> FALSE,
     in_cooldown |-> FALSE, error_count |-> 0, success_rate |-> 0,
     total_requests |-> 0, last_success |-> 0, last_error |-> 0]

\* SearchManager.get_available_engines: a plain method that collects what
\* engine.get_status() gives, unawaited
get_available_engines(engs) ==
    [i \in 1..Len(engs) |-> get_status_coroutine(engs[i])]

RECURSIVE sum_requests(_, _, _)
sum_requests(engs, h, field) ==
    IF engs = <<>> THEN 0
    ELSE h[Head(engs)][field] + sum_requests(Tail(engs), h, field)

\* mutant: only the available engines are counted
get_search_stats_of_available(engs, h, t, last_time, last_engine) ==
    LET usable == SelectSeq(engs, LAMBDA e : is_available(e, h[e], t))
    IN  [total_engines |-> Len(engs),
         available_engines |-> Len(usable),
         total_requests |-> sum_requests(usable, h, "total_requests"),
         successful_requests |-> sum_requests(usable, h, "successful_requests"),
         success_rate |-> success_rate(sum_requests(usable, h, "successful_requests"),
                                       sum_requests(usable, h, "total_requests")),
         last_search_time |-> last_time,
         last_used_engine |-> last_engine]

\* SearchManager.get_search_stats
get_search_stats(engs, h, t, last_time, last_engine) ==
    [total_engines |-> Len(engs),
     available_engines |-> Len(SelectSeq(engs, LAMBDA e : is_available(e, h[e], t))),
     total_requests |-> sum_requests(engs, h, "total_requests"),
     successful_requests |-> sum_requests(engs, h, "successful_requests"),
     success_rate |-> success_rate(sum_requests(engs, h, "successful_requests"),
                                   sum_requests(engs, h, "total_requests")),
     last_search_time |-> last_time,
     last_used_engine |-> last_engine]

\* SearchFusionServer._handle_get_engines: get_available_engines returns a
\* list, and the await on that list raises TypeError before
\* get_search_stats is called; the except builds the error response
handle_get_engines(ready, engs) ==
    IF ~ready
    THEN [op |-> "get_available_engines", engines |-> <<>>,
          error |-> "Search manager unavailable", stats |-> NoStats]
    ELSE LET engine_list == get_available_engines(engs)
         IN  [op |-> "get_available_engines", engines |-> <<>>,
              error |-> "Failed to get engine list", stats |-> NoStats]

\* the get_available_engines tool
GetEngines ==
    /\ status_call' = handle_get_engines(manager_ready, engines)
    /\ UNCHANGED <<managerVars, health, now, dispatchVars, serverVars,
                   fetcherVars, health_call, lockVars, loopVars, abandoned, applied>>

\* a call of SearchManager.get_search_stats
GetStats ==
    /\ status_call' = [op |-> "get_search_stats", engines |-> <<>>, error |-> "",
                       stats |-> get_search_stats(engines, health, now,
                                                  last_search_time, last_used_engine)]
    /\ UNCHANGED <<managerVars, health, now, dispatchVars, serverVars,
                   fetcherVars, health_call, lockVars, loopVars, abandoned, applied>>

\* the caller has its answer
StatusDone ==
    /\ status_call # NoStatus
    /\ status_call' = NoStatus
    /\ UNCHANGED <<managerVars, health, now, dispatchVars, serverVars,
                   fetcherVars, health_call, lockVars, loopVars, abandoned, applied>>

\* the providers of the dispatcher the status calls are made on: the two
\* that need no key
StatusRegistrations == { {"JinaSearch", "DuckDuckGoSearch"} }

InitStatus ==
    /\ Init
    /\ \E S \in StatusRegistrations : engines = new_engines(S)

NextStatus ==
    \/ (status_call = NoStatus /\ Next)
    \/ GetEngines
    \/ GetStats
    \/ StatusDone

SpecStatus == InitStatus /\ [][NextStatus]_vars

----------------------------------------------------------------------------
(* SpecNames: searches whose preferred_engine argument names a provider in  *)
(* full, by its start, without 'search', by a part, or not at all           *)

ResolveNames ==
    { auto_word,
      <<"G","O","O","G","L","E">>,
      <<"s","e","r","p","e","r","s","e","a","r","c","h">>,
      <<"b">>,
      <<"B","a","i","d","u">>,
      <<"r","c","h">>,
      <<"a","i">>,
      <<"y","a","h","o","o">> }

\* SearchManager.__init__ with the four providers that record nothing
InitNames ==
    /\ \E S \in { {"GoogleSearch", "SerperSearch", "BingSearch", "BaiduSearch"} } :
           /\ engines = new_engines(S)
           /\ \E k \in [S -> {0, max_error_count}] :
                  health = [e \in Classes |->
                               IF e \in S THEN errors_recorded(k[e], StartTime)
                                          ELSE InitialHealth]
    /\ last_used_engine = "None"
    /\ last_search_time = 0
    /\ now = StartTime
    /\ pc = "idle"
    /\ idx = 0
    /\ query_blank = FALSE
    /\ preferred = auto_word
    /\ ret = Pending
    /\ trace = <<>>
    /\ last_record = NoRecord
    /\ ServerIdle
    /\ FetcherIdle

NextNames ==
    \/ \E blank \in BOOLEAN, engine_name \in ResolveNames :
           SearchStart(blank, engine_name)
    \/ \E o \in BackendOutcomes : PreferredReturn(o)
    \/ LoopSkip
    \/ LoopCall
    \/ \E o \in BackendOutcomes : LoopReturn(o)
    \/ LoopExhausted
    \/ SearchFinish
    \/ Tick

SpecNames == InitNames /\ [][NextNames]_vars

----------------------------------------------------------------------------
(* SpecOrder: dispatchers whose providers share priorities or are           *)
(* registered out of priority order, under searches and status calls        *)

\* the providers constructed: Google and Serper have priority 1.0, Bing and
\* Baidu 3.0, and DuckDuckGo (2.0) is appended before Exa (1.8)
OrderRegistrations ==
    { {"GoogleSearch", "SerperSearch", "BingSearch", "BaiduSearch"},
      {"DuckDuckGoSearch", "ExaSearch"} }

\* SearchManager.__init__
InitOrder ==
    /\ \E S \in OrderRegistrations :
           /\ engines = new_engines(S)
           /\ \E k \in [S -> {0, max_error_count}] :
                  health = [e \in Classes |->
                               IF e \in S THEN errors_recorded(k[e], StartTime)
                                          ELSE InitialHealth]
    /\ last_used_engine = "None"
    /\ last_search_time = 0
    /\ now = StartTime
    /\ pc = "idle"
    /\ idx = 0
    /\ query_blank = FALSE
    /\ preferred = auto_word
    /\ ret = Pending
    /\ trace = <<>>
    /\ last_record = NoRecord
    /\ ServerIdle
    /\ FetcherIdle

SpecOrder == InitOrder /\ [][NextStatus]_vars

----------------------------------------------------------------------------
(* WebFetcher (web_fetcher.py): the pure parts.  A text is a sequence of   *)
(* one-character strings over Chars.                                      *)

Chars == {"a", " ", "\n"}

\* the characters str.strip() removes
Whitespace == {" ", "\n"}

\* '\n\n'
paragraph_separator == <<"\n", "\n">>

\* WebFetcher.cache_ttl
cache_ttl == 3600

RECURSIVE lstrip(_)
lstrip(s) == IF s # <<>> /\ Head(s) \in Whitespace THEN lstrip(Tail(s)) ELSE s

RECURSIVE rstrip(_)
rstrip(s) ==
    IF s # <<>> /\ s[Len(s)] \in Whitespace
    THEN rstrip(SubSeq(s, 1, Len(s) - 1))
    ELSE s

\* str.strip()
strip(s) == rstrip(lstrip(s))

\* content.split('\n\n'): cur is the piece being read
RECURSIVE split_from(_, _)
split_from(s, cur) ==
    IF s = <<>> THEN <<cur>>
    ELSE IF Len(s) >= 2 /\ SubSeq(s, 1, 2) = paragraph_separator
    THEN <<cur>> \o split_from(SubSeq(s, 3, Len(s)), <<>>)
    ELSE split_from(Tail(s), Append(cur, Head(s)))

str_split(s) == split_from(s, <<>>)

\* mutant: a paragraph longer than max_length is appended uncut
chunks_uncut(paragraph, max_length) ==
    IF paragraph = <<>> THEN <<>> ELSE <<paragraph>>

\* lines 378-380: paragraph[i:i + max_length] for i in range(0, len, max_length)
RECURSIVE chunks(_, _)
chunks(paragraph, max_length) ==
    IF paragraph = <<>> THEN <<>>
    ELSE IF Len(paragraph) <= max_length THEN <<paragraph>>
    ELSE <<SubSeq(paragraph, 1, max_length)>>
         \o chunks(SubSeq(paragraph, max_length + 1, Len(paragraph)), max_length)

\* lines 373-375, 385-386, 395-396: if current_page: pages.append(current_page.strip())
flush(pages, current_page) ==
    IF current_page # <<>> THEN Append(pages, strip(current_page)) ELSE pages

\* mutant: the separator is not counted when a paragraph is fitted
exceeds_without_separator(current_length, paragraph_length, max_length) ==
    current_length + paragraph_length > max_length

\* line 384: len(current_page) + len(paragraph) + 2 > max_length
exceeds(current_length, paragraph_length, max_length) ==
    current_length + paragraph_length + 2 > max_length

\* lines 369-396: the loop over the paragraphs and the last page
RECURSIVE pack(_, _, _, _)
pack(paragraphs, pages, current_page, max_length) ==
    IF paragraphs = <<>> THEN flush(pages, current_page)
    ELSE LET paragraph == Head(paragraphs)
             rest == Tail(paragraphs)
         IN  IF Len(paragraph) > max_length
             THEN pack(rest, flush(pages, current_page) \o chunks(paragraph, max_length),
                       <<>>, max_length)
             ELSE IF exceeds(Len(current_page), Len(paragraph), max_length)
             THEN pack(rest, flush(pages, current_page), paragraph, max_length)
             ELSE pack(rest, pages,
                       IF current_page # <<>>
                       THEN current_page \o paragraph_separator \o paragraph
                       ELSE paragraph,
                       max_length)

\* WebFetcher._split_content_into_pages
split_content_into_pages(content, max_length) ==
    IF Len(content) <= max_length THEN <<content>>
    ELSE pack(str_split(content), <<>>, <<>>, max_length)

----------------------------------------------------------------------------
(* SpecTimeout: _handle_search gives up after 60 seconds.  asyncio.wait_for *)
(* cancels the task of search(); CancelledError is raised at the await the  *)
(* task is suspended at, and no except Exception clause on the way catches  *)
(* it.  An HTTP request in flight goes with the task; a backend call that   *)
(* runs in a thread (asyncio.to_thread) goes on to its end.                 *)

\* the wrappers that hand their backend call to a thread
runs_in_thread(e) == e \in {"DuckDuckGoSearch", "ExaSearch"}

\* the call of search() on e is suspended at its backend request
awaits_backend(e, blank, available) ==
    CASE e = "BaiduSearch"        -> FALSE
      [] e = "DuckDuckGoSearch"   -> ~blank
      [] e \in ConcreteClasses \ {"BaiduSearch", "DuckDuckGoSearch"} -> available
      [] OTHER                    -> TRUE

\* what wait_for leaves of search()
Cancelled == [status |-> "cancelled", results |-> <<>>]

\* _handle_search, lines 195-203: the timeout expires while search() awaits
\* an engine
SearchTimeout ==
    /\ pc \in {"preferred_call", "loop_call"}
    /\ abandoned.state # "running"
    /\ LET last == trace[Len(trace)]
       IN  /\ awaits_backend(last.engine, query_blank, ~last.cooldown)
           /\ abandoned' = [engine |-> last.engine,
                            state |-> IF runs_in_thread(last.engine)
                                      THEN "running" ELSE "cancelled",
                            update |-> "none"]
    /\ trace' = SetLastKind(trace, "timeout")
    /\ ret' = Cancelled
    /\ pc' = "done"
    /\ response' = error_response("Search operation timed out")
    /\ UNCHANGED <<fetcherVars, status_call, health_call, lockVars, loopVars,
                   applied, engines, health, last_used_engine, last_search_time,
                   now, idx,
                   query_blank, preferred, last_record, sem_value, ops,
                   manager_ready, last_init_attempt>>

\* the thread of the abandoned call returns; update is what the wrapper
\* records after such an answer, and the coroutine that would record it is
\* gone
AbandonedCompletes(o) ==
    /\ abandoned.state = "running"
    /\ abandoned' = [abandoned EXCEPT
                        !.state = "completed",
                        !.update = engine_search(abandoned.engine, o, FALSE,
                                                 TRUE).record]
    /\ UNCHANGED <<fetcherVars, status_call, health_call, lockVars, loopVars,
                   applied, managerVars, health, now, dispatchVars, serverVars>>

\* a dispatcher with the two providers that need no key
InitTimeout ==
    /\ Init
    /\ engines = new_engines({"JinaSearch", "DuckDuckGoSearch"})

NextTimeout ==
    \/ Next
    \/ SearchTimeout
    \/ \E o \in BackendOutcomes : AbandonedCompletes(o)

SpecTimeout == InitTimeout /\ [][NextTimeout]_vars

----------------------------------------------------------------------------
(* WebFetcher: the acquisition methods, the page cache and fetch_url *)

Urls == {"u1", "u2"}

\* what a remote answer comes to: an error (connection, HTTP status,
\* malformed body) or the text the method extracts from the response
RequestFails == [kind |-> "error", content |-> <<>>]
Body(content) == [kind |-> "body", content |-> content]

\* the texts the model's pages have: none, two paragraphs, blank lines only
EmptyText == <<>>
LongText  == <<"a", "a", "\n", "\n", "a", "a">>
BlankText == <<"\n", "\n", "\n", "\n">>

\* what each method can get for a URL
JinaAnswers   == {RequestFails, Body(EmptyText), Body(LongText)}
SerperAnswers == {Body(BlankText), Body(LongText)}
HttpxAnswers  == {RequestFails, Body(EmptyText), Body(BlankText), Body(LongText)}

\* the answers of the three remote services to one fetch_url call; a
\* service that comes after a usable answer is not asked, and neither is any
\* for a page lookup, so its answer is left at RequestFails
RemoteAnswers(page_number) ==
    IF page_number > 1 THEN {<<RequestFails, RequestFails, RequestFails>>}
    ELSE {o \in JinaAnswers \X (SerperAnswers \cup {RequestFails}) \X HttpxAnswers :
             /\ o[1] = Body(LongText) <=> o[2] = RequestFails
             /\ (o[1] = Body(LongText) \/ o[2] = Body(LongText)) => o[3] = RequestFails}

\* the max_length and page_number arguments the model gives fetch_url
PageLengths == {2, 6}
PageNumbers == {1, 2, 3}

\* an acquisition method's result dict
MethodResult(method, ok, content, error) ==
    [method |-> method, success |-> ok, content |-> content, error |-> error]

\* WebFetcher._fetch_with_jina
fetch_with_jina(o) ==
    IF o.kind = "error" THEN MethodResult("jina", FALSE, <<>>, "request failed")
    ELSE IF o.content # <<>> /\ strip(o.content) # <<>>
    THEN MethodResult("jina", TRUE, o.content, "")
    ELSE MethodResult("jina", FALSE, <<>>, "Jina returned empty content")

\* WebFetcher._fetch_with_serper
fetch_with_serper(o) ==
    IF o.kind = "error" THEN MethodResult("serper", FALSE, <<>>, "request failed")
    ELSE IF strip(o.content) # <<>>
    THEN MethodResult("serper", TRUE, o.content, "")
    ELSE MethodResult("serper", FALSE, <<>>, "Serper returned empty content")

\* WebFetcher._fetch_with_httpx: whatever text the response gives is a success
fetch_with_httpx(o) ==
    IF o.kind = "error" THEN MethodResult("httpx", FALSE, <<>>, "request failed")
    ELSE MethodResult("httpx", TRUE, o.content, "")

\* mutant: every method is invoked, the last answer is kept
attempts_all(use_jina, key, jina, serper, httpx) ==
    <<fetch_with_jina(jina), fetch_with_serper(serper), fetch_with_httpx(httpx)>>

\* fetch_url, lines 64-78: the methods invoked, in order, up to the first
\* success
attempts(use_jina, key, jina, serper, httpx) ==
    LET a1 == IF use_jina THEN <<fetch_with_jina(jina)>> ELSE <<>>
        s1 == a1 # <<>> /\ a1[Len(a1)].success
        a2 == IF ~s1 /\ key THEN Append(a1, fetch_with_serper(serper)) ELSE a1
        s2 == a2 # <<>> /\ a2[Len(a2)].success
    IN  IF s2 THEN a2 ELSE Append(a2, fetch_with_httpx(httpx))

\* a result dict of fetch_url with success False
Failure(error) == [NoResult EXCEPT !.error = error]

\* what fetch_url gives and leaves behind
Outcome(result, cache, count, invoked, swept) ==
    [result |-> result, cache |-> cache, sessions |-> count,
     invoked |-> invoked, swept |-> swept]

\* mutant: the failure carries what the last method left and is cached
all_methods_failed_keeps(cache, count, url, invoked) ==
    Outcome([Failure("All fetching methods failed") EXCEPT !.content = <<"a">>],
            Append(cache, [page_id |-> count + 1, url |-> url, pages |-> <<>>,
                           created_at |-> 0]),
            count + 1, invoked, {})

\* fetch_url, lines 80-84
all_methods_failed(cache, count, url, invoked) ==
    Outcome(Failure("All fetching methods failed"), cache, count, invoked, {})

\* mutant: a content that fits in one page is stored as a one-page entry
process_content_stores_all(cache, count, t, url, max_length, got, invoked) ==
    LET pages == split_content_into_pages(got.content, max_length)
        stored == Append(cache, [page_id |-> count + 1, url |-> url,
                                 pages |-> pages, created_at |-> t])
    IN  IF pages = <<>>
        THEN Outcome(Failure("list index out of range"), stored, count + 1,
                     invoked, {})
        ELSE Outcome([success |-> TRUE, error |-> "", content |-> pages[1],
                      method |-> got.method,
                      is_paginated |-> Len(got.content) > max_length,
                      pages |-> Len(pages), current_page |-> 1,
                      total_length |-> Len(got.content)],
                     stored, count + 1, invoked, {})

\* WebFetcher._process_content, under the try of fetch_url (lines 86-92):
\* pages[0] of an empty page list raises IndexError after the entry is stored
process_content(cache, count, t, url, max_length, got, invoked) ==
    IF Len(got.content) <= max_length
    THEN Outcome([success |-> TRUE, error |-> "", content |-> got.content,
                  method |-> got.method, is_paginated |-> FALSE, pages |-> 1,
                  current_page |-> 1, total_length |-> Len(got.content)],
                 cache, count, invoked, {})
    ELSE LET pages == split_content_into_pages(got.content, max_length)
             stored == Append(cache, [page_id |-> count + 1, url |-> url,
                                      pages |-> pages, created_at |-> t])
         IN  IF pages = <<>>
             THEN Outcome(Failure("list index out of range"), stored, count + 1,
                          invoked, {})
             ELSE Outcome([success |-> TRUE, error |-> "", content |-> pages[1],
                           method |-> got.method, is_paginated |-> TRUE,
                           pages |-> Len(pages), current_page |-> 1,
                           total_length |-> Len(got.content)],
                          stored, count + 1, invoked, {})

\* an entry's age is over the TTL
Expired(entry, t) == t - entry.created_at > cache_ttl

\* mutant: nothing is swept
cleanup_nothing(cache, t) == cache

\* WebFetcher._cleanup_expired_cache
cleanup_expired_cache(cache, t) ==
    SelectSeq(cache, LAMBDA entry : ~Expired(entry, t))

\* the positions of the entries of a URL, in iteration order
Matching(cache, url) == {i \in 1..Len(cache) : cache[i].url = url}

FirstMatching(cache, url) ==
    CHOOSE i \in Matching(cache, url) : \A j \in Matching(cache, url) : i <= j

\* a page served from an entry
CachedPage(entry, page_number) ==
    [success |-> TRUE, error |-> "", content |-> entry.pages[page_number],
     method |-> "none", is_paginated |-> TRUE, pages |-> Len(entry.pages),
     current_page |-> page_number, total_length |-> 0]

\* mutant: a page number past the end serves the last page
get_cached_page_clamped(cache, url, page_number) ==
    IF Matching(cache, url) = {} THEN Failure("Page cache not found")
    ELSE LET entry == cache[FirstMatching(cache, url)]
         IN  IF entry.pages = <<>> THEN Failure("Invalid page number")
             ELSE IF page_number > Len(entry.pages)
             THEN CachedPage(entry, Len(entry.pages))
             ELSE CachedPage(entry, page_number)

\* mutant: the entry of the most recent fetch of the URL is served
get_cached_page_latest(cache, url, page_number) ==
    IF Matching(cache, url) = {} THEN Failure("Page cache not found")
    ELSE LET last == CHOOSE i \in Matching(cache, url) :
                         \A j \in Matching(cache, url) : j <= i
             entry == cache[last]
         IN  IF page_number < 1 \/ page_number > Len(entry.pages)
             THEN Failure("Invalid page number")
             ELSE CachedPage(entry, page_number)

\* WebFetcher._get_cached_page, lines 326-356, on the swept cache
get_cached_page(cache, url, page_number) ==
    IF Matching(cache, url) = {} THEN Failure("Page cache not found")
    ELSE LET entry == cache[FirstMatching(cache, url)]
         IN  IF page_number < 1 \/ page_number > Len(entry.pages)
             THEN Failure("Invalid page number")
             ELSE CachedPage(entry, page_number)

\* the URLs of the entries a sweep removes
SweptUrls(cache, t) ==
    {cache[i].url : i \in {j \in 1..Len(cache) : Expired(cache[j], t)}}

\* mutant: a page that is not in the cache is fetched
fetch_url_refetches(cache, count, t, key, url, use_jina, max_length, page_number, o) ==
    LET swept == cleanup_expired_cache(cache, t)
        invoked == attempts(use_jina, key, o[1], o[2], o[3])
        got == invoked[Len(invoked)]
    IN  IF page_number > 1 /\ Matching(swept, url) # {}
        THEN Outcome(get_cached_page(swept, url, page_number), swept, count,
                     <<>>, SweptUrls(cache, t))
        ELSE IF got.success
        THEN process_content(cache, count, t, url, max_length, got, invoked)
        ELSE all_methods_failed(cache, count, url, invoked)

\* WebFetcher.fetch_url
fetch_url(cache, count, t, key, url, use_jina, max_length, page_number, o) ==
    IF page_number > 1
    THEN LET swept == cleanup_expired_cache(cache, t)
         IN  Outcome(get_cached_page(swept, url, page_number), swept, count,
                     <<>>, SweptUrls(cache, t))
    ELSE LET invoked == attempts(use_jina, key, o[1], o[2], o[3])
             got == invoked[Len(invoked)]
         IN  IF got.success
             THEN process_content(cache, count, t, url, max_length, got, invoked)
             ELSE all_methods_failed(cache, count, url, invoked)

\* one call of fetch_url; the remote answers are o
FetchUrl(url, use_jina, max_length, page_number, o) ==
    \E out \in {fetch_url(page_cache, sessions, loop_time, serper_api_key, url,
                          use_jina, max_length, page_number, o)} :
        /\ out.sessions <= MaxSessions
        /\ page_cache' = out.cache
        /\ sessions' = out.sessions
        /\ fetch_call' = [called |-> TRUE, url |-> url, page_number |-> page_number,
                          use_jina |-> use_jina, max_length |-> max_length,
                          invoked |-> [i \in 1..Len(out.invoked) |->
                                          [method |-> out.invoked[i].method,
                                           success |-> out.invoked[i].success]],
                          got |-> IF out.invoked = <<>> THEN <<>>
                                  ELSE out.invoked[Len(out.invoked)].content,
                          swept |-> out.swept, result |-> out.result]
        /\ UNCHANGED <<managerVars, health, now, dispatchVars, serverVars,
                       serper_api_key, loop_time, split, scenario, auxVars>>

\* the loop's clock advances
LoopTick ==
    /\ loop_time + CacheTickStep <= CacheHorizon
    /\ loop_time' = loop_time + CacheTickStep
    /\ UNCHANGED <<managerVars, health, now, dispatchVars, serverVars,
                   serper_api_key, page_cache, sessions, fetch_call, split,
                   scenario, auxVars>>

\* everything but the fetcher at rest
RestIdle ==
    /\ engines = <<>>
    /\ health = [e \in Classes |-> InitialHealth]
    /\ last_used_engine = "None"
    /\ last_search_time = 0
    /\ now = StartTime
    /\ pc = "idle"
    /\ idx = 0
    /\ query_blank = FALSE
    /\ preferred = auto_word
    /\ ret = Pending
    /\ trace = <<>>
    /\ last_record = NoRecord
    /\ ServerIdle

InitFetch ==
    /\ RestIdle
    /\ serper_api_key \in BOOLEAN
    /\ page_cache = <<>>
    /\ loop_time = 0
    /\ sessions = 0
    /\ fetch_call = NoFetch
    /\ split = NoSplit
    /\ scenario = NoScenario
    /\ AuxIdle

NextFetch ==
    \/ \E url \in Urls, use_jina \in BOOLEAN, max_length \in PageLengths,
          page_number \in PageNumbers :
           \E o \in RemoteAnswers(page_number) :
               FetchUrl(url, use_jina, max_length, page_number, o)
    \/ LoopTick

SpecFetch == InitFetch /\ [][NextFetch]_vars

\* texts whose paragraph structure ends in, or holds, blank paragraphs
TrailingText == <<"a", "a", "\n", "\n">>
SpacedText   == <<"a", "a", "\n", "\n", " ", "\n", "\n", "a", "a">>

\* the remote answers of a fetch_url call whose direct request gets one of
\* these texts, the reader and the scrape API failing
TrailingAnswers(page_number) ==
    IF page_number > 1 THEN {<<RequestFails, RequestFails, RequestFails>>}
    ELSE {<<RequestFails, RequestFails, Body(t)>> :
             t \in {TrailingText, SpacedText}}

NextTrailing ==
    \/ \E url \in Urls, use_jina \in BOOLEAN, max_length \in PageLengths,
          page_number \in PageNumbers :
           \E o \in TrailingAnswers(page_number) :
               FetchUrl(url, use_jina, max_length, page_number, o)
    \/ LoopTick

SpecTrailing == InitFetch /\ [][NextTrailing]_vars

----------------------------------------------------------------------------
(* Concurrent fetch_url calls on the event loop.  A coroutine runs from one
   await that suspends to the next; the awaits that suspend are the HTTP
   requests of the three methods (web_fetcher.py lines 117, 152, 184).
   _get_cached_page, _cleanup_expired_cache and _process_content hold no
   such await. *)

\* mutant: the lookup gives the loop away between its sweep and its scan
suspends_before_scan(at) == at \in {"jina", "serper", "httpx", "scan"}

\* the positions at which a coroutine of fetch_url is suspended
suspends(at) == at \in {"jina", "serper", "httpx"}

\* the loop runs coroutine p: it resumes p from a suspension when it runs
\* nothing, and otherwise goes on with the coroutine it is running
Runs(p) ==
    IF fetchers[p].pc = "idle" \/ suspends(fetchers[p].pc)
    THEN running = 0
    ELSE running = p

\* coroutine p moves to position at; the loop keeps it unless it suspends
\* there or has returned
Moves(p, next) ==
    /\ fetchers' = [fetchers EXCEPT ![p] = next]
    /\ running' = IF next.pc = "idle" \/ suspends(next.pc) THEN 0 ELSE p

\* fetch_url, lines 64-76: the method asked after position at has failed
next_method(at, use_jina, key) ==
    IF at = "start" /\ use_jina THEN "jina"
    ELSE IF at \in {"start", "jina"} /\ key THEN "serper"
    ELSE IF at \in {"start", "jina", "serper"} THEN "httpx"
    ELSE "failed"

\* the answers a method's request can get
AnswersAt(at) ==
    IF at = "jina" THEN JinaAnswers
    ELSE IF at = "serper" THEN SerperAnswers \cup {RequestFails}
    ELSE HttpxAnswers

\* the method's result for an answer
method_result(at, o) ==
    IF at = "jina" THEN fetch_with_jina(o)
    ELSE IF at = "serper" THEN fetch_with_serper(o)
    ELSE fetch_with_httpx(o)

\* fetch_url is called (lines 58-65): a lookup goes on to the sweep, a first
\* page request sends its first HTTP request
FetchBegin(p, url, use_jina, max_length, page_number) ==
    /\ fetchers[p].pc = "idle"
    /\ Runs(p)
    /\ Moves(p, [NoFetcher EXCEPT
                    !.pc = IF page_number > 1 THEN "sweep"
                           ELSE next_method("start", use_jina, serper_api_key),
                    !.url = url, !.use_jina = use_jina,
                    !.max_length = max_length, !.page_number = page_number])
    /\ UNCHANGED <<managerVars, health, now, dispatchVars, serverVars,
                   fetcherVars, status_call, health_call, lockVars, abandoned, applied>>

\* a method's request answers (lines 65-84): on success the coroutine goes on
\* to _process_content, otherwise to the next method or to the failure
MethodReturns(p, o) ==
    /\ suspends(fetchers[p].pc)
    /\ fetchers[p].pc \in {"jina", "serper", "httpx"}
    /\ Runs(p)
    /\ LET f == fetchers[p]
           got == method_result(f.pc, o)
           next == next_method(f.pc, f.use_jina, serper_api_key)
       IN  Moves(p, IF got.success
                    THEN [f EXCEPT !.pc = "process", !.got = got]
                    ELSE IF next = "failed"
                    THEN [NoFetcher EXCEPT
                             !.result = Failure("All fetching methods failed")]
                    ELSE [f EXCEPT !.pc = next])
    /\ UNCHANGED <<managerVars, health, now, dispatchVars, serverVars,
                   fetcherVars, status_call, health_call, lockVars, abandoned, applied>>

\* _process_content (lines 265-318), and the return of fetch_url
ProcessContent(p) ==
    /\ fetchers[p].pc = "process"
    /\ Runs(p)
    /\ LET f == fetchers[p]
           out == process_content(page_cache, sessions, loop_time, f.url,
                                  f.max_length, f.got, <<>>)
       IN  /\ out.sessions <= MaxSessions
           /\ page_cache' = out.cache
           /\ sessions' = out.sessions
           /\ Moves(p, [NoFetcher EXCEPT !.result = out.result])
    /\ UNCHANGED <<managerVars, health, now, dispatchVars, serverVars,
                   serper_api_key, loop_time, fetch_call, split, scenario,
                   status_call, health_call, lockVars, abandoned, applied>>

\* _get_cached_page, line 323: the sweep
LookupSweep(p) ==
    /\ fetchers[p].pc = "sweep"
    /\ Runs(p)
    /\ page_cache' = cleanup_expired_cache(page_cache, loop_time)
    /\ Moves(p, [fetchers[p] EXCEPT !.pc = "scan"])
    /\ UNCHANGED <<managerVars, health, now, dispatchVars, serverVars,
                   serper_api_key, loop_time, sessions, fetch_call, split,
                   scenario, status_call, health_call, lockVars, abandoned, applied>>

\* _get_cached_page, lines 326-356: the scan, and the return of fetch_url
LookupScan(p) ==
    /\ fetchers[p].pc = "scan"
    /\ Runs(p)
    /\ Moves(p, [NoFetcher EXCEPT
                    !.result = get_cached_page(page_cache, fetchers[p].url,
                                               fetchers[p].page_number)])
    /\ UNCHANGED <<managerVars, health, now, dispatchVars, serverVars,
                   fetcherVars, status_call, health_call, lockVars, abandoned, applied>>

\* the max_length and page_number arguments of the concurrent calls
LoopLengths == {2}
LoopPages   == {1, 2}

\* a fetcher that has a Serper key, so that all three methods are in use
InitLoop == InitFetch /\ serper_api_key

NextLoop ==
    \/ \E p \in Fetchers, url \in Urls, use_jina \in BOOLEAN,
          max_length \in LoopLengths, page_number \in LoopPages :
           FetchBegin(p, url, use_jina, max_length, page_number)
    \/ \E p \in Fetchers : \E o \in AnswersAt(fetchers[p].pc) : MethodReturns(p, o)
    \/ \E p \in Fetchers : ProcessContent(p)
    \/ \E p \in Fetchers : LookupSweep(p)
    \/ \E p \in Fetchers : LookupScan(p)
    \/ LoopTick

SpecLoop == InitLoop /\ [][NextLoop]_vars

----------------------------------------------------------------------------
(* SpecPages: _split_content_into_pages on every short text *)

Texts == UNION {[1..k -> Chars] : k \in 0..MaxContentLen}

SplitContent ==
    /\ ~split.done
    /\ split' = [split EXCEPT !.done = TRUE,
                              !.pages = split_content_into_pages(split.content,
                                                                 split.max_length)]
    /\ UNCHANGED <<managerVars, health, now, dispatchVars, serverVars,
                   serper_api_key, page_cache, loop_time, sessions, fetch_call,
                   scenario, auxVars>>

InitPages ==
    /\ RestIdle
    /\ serper_api_key = FALSE
    /\ page_cache = <<>>
    /\ loop_time = 0
    /\ sessions = 0
    /\ fetch_call = NoFetch
    /\ \E content \in Texts, max_length \in 1..MaxPageLength :
           split = [content |-> content, max_length |-> max_length,
                    done |-> FALSE, pages |-> <<>>]
    /\ scenario = NoScenario
    /\ AuxIdle

NextPages == SplitContent

SpecPages == InitPages /\ [][NextPages]_vars

----------------------------------------------------------------------------
(* SpecScenario: _split_content_into_pages on a long content.  The content *)
(* is given by the lengths of its paragraphs, in order; every paragraph is *)
(* non-empty and holds no whitespace, so that str.strip() leaves the pages *)
(* as they are and a page is known by its length.                          *)

RECURSIVE Sum(_)
Sum(lens) == IF lens = <<>> THEN 0 ELSE Head(lens) + Sum(Tail(lens))

\* len('\n\n'.join(paragraphs))
content_length(lens) == Sum(lens) + 2 * (Len(lens) - 1)

\* lines 378-380, the lengths of the chunks
RECURSIVE chunk_lengths(_, _)
chunk_lengths(paragraph_length, max_length) ==
    IF paragraph_length = 0 THEN <<>>
    ELSE IF paragraph_length <= max_length THEN <<paragraph_length>>
    ELSE <<max_length>> \o chunk_lengths(paragraph_length - max_length, max_length)

\* lines 373-375, 385-386, 395-396, by the length of current_page
flush_length(pages, current_length) ==
    IF current_length > 0 THEN Append(pages, current_length) ELSE pages

\* lines 369-396, by lengths
RECURSIVE pack_lengths(_, _, _, _)
pack_lengths(lens, pages, current_length, max_length) ==
    IF lens = <<>> THEN flush_length(pages, current_length)
    ELSE LET paragraph_length == Head(lens)
             rest == Tail(lens)
         IN  IF paragraph_length > max_length
             THEN pack_lengths(rest,
                               flush_length(pages, current_length)
                                   \o chunk_lengths(paragraph_length, max_length),
                               0, max_length)
             ELSE IF exceeds(current_length, paragraph_length, max_length)
             THEN pack_lengths(rest, flush_length(pages, current_length),
                               paragraph_length, max_length)
             ELSE pack_lengths(rest, pages,
                               IF current_length > 0
                               THEN current_length + 2 + paragraph_length
                               ELSE paragraph_length,
                               max_length)

\* WebFetcher._split_content_into_pages, the lengths of its pages
page_lengths(lens, max_length) ==
    IF content_length(lens) <= max_length THEN <<content_length(lens)>>
    ELSE pack_lengths(lens, <<>>, 0, max_length)

\* the scenario: a content of 120000 characters in 60 paragraphs (2000
\* characters of content for each), pages of at most 50000 (the default of
\* max_length)
Scenario == [length |-> 120000, paragraphs |-> 60, max_length |-> 50000]

\* the lengths some paragraphs of the scenario are given
LongParagraphs == {1998, 10000, 12499, 15000, 15002, 25000, 30000, 39000, 50001}

\* Scenario.paragraphs paragraphs that make Scenario.length characters: k of
\* them, from position pos on, have length long; the others share what is
\* left evenly, the last one taking the remainder
Profile(k, long, pos) ==
    LET n == Scenario.paragraphs
        left == Scenario.length - 2 * (n - 1) - k * long
        share == left \div (n - k)
        last == IF pos + k - 1 = n THEN pos - 1 ELSE n
    IN  [i \in 1..n |->
            IF i >= pos /\ i < pos + k THEN long
            ELSE IF i = last THEN share + (left % (n - k))
            ELSE share]

\* the profiles all of whose paragraphs are non-empty
Profiles ==
    {lens \in {Profile(k, long, pos) :
                  k \in 1..4, long \in LongParagraphs,
                  pos \in 1..(Scenario.paragraphs - 4)} :
        \A i \in 1..Len(lens) : lens[i] >= 1}

\* the call on the scenario's content
SplitScenario ==
    /\ ~scenario.done
    /\ scenario.paragraphs # <<>>
    /\ scenario' = [scenario EXCEPT !.done = TRUE,
                                    !.pages = page_lengths(scenario.paragraphs,
                                                           scenario.max_length)]
    /\ UNCHANGED <<managerVars, health, now, dispatchVars, serverVars,
                   serper_api_key, page_cache, loop_time, sessions, fetch_call,
                   split, auxVars>>

InitScenario ==
    /\ RestIdle
    /\ serper_api_key = FALSE
    /\ page_cache = <<>>
    /\ loop_time = 0
    /\ sessions = 0
    /\ fetch_call = NoFetch
    /\ split = NoSplit
    /\ \E lens \in Profiles :
           scenario = [paragraphs |-> lens, max_length |-> Scenario.max_length,
                       done |-> FALSE, pages |-> <<>>]
    /\ AuxIdle

NextScenario == SplitScenario

SpecScenario == InitScenario /\ [][NextScenario]_vars

----------------------------------------------------------------------------
(* Properties *)

Invoked(entry) == entry.kind # "skip"

\* the step in which a provider's search() completes
Completes == pc \in {"preferred_call", "loop_call"} /\ pc' # pc

\* the entries of the call's history that the priority loop made
LoopEntries == SelectSeq(trace, LAMBDA entry : entry.phase = "loop")

\* C1: the record_error that raises error_count to max_error_count makes the
\* provider unavailable; an unavailable provider becomes available only once
\* its cooldown has elapsed since the last error or by a record_success; a
\* record_success resets error_count to 0 and makes it available at once.
C1_CooldownGate ==
    [][\A e \in Classes :
          /\ (health[e].error_count < max_error_count
                /\ health'[e].error_count = max_error_count)
             => ~IsAvailable(e)'
          /\ (~IsAvailable(e) /\ IsAvailable(e)')
             => \/ now' - health'[e].last_error_time >= rate_limit_cooldown(e)
                \/ health'[e].successful_requests = health[e].successful_requests + 1
          /\ health'[e].successful_requests = health[e].successful_requests + 1
             => (IsAvailable(e)' /\ health'[e].error_count = 0)]_vars

\* a provider that three errors put in cooldown was brought back by a
\* success before the cooldown had elapsed
C1_Witness ==
    \E e \in Classes :
        /\ health[e].total_requests = max_error_count + 1
        /\ health[e].successful_requests = 1
        /\ health[e].error_count = 0
        /\ health[e].last_success_time - health[e].last_error_time < rate_limit_cooldown(e)
        /\ IsAvailable(e)

\* C2: a provider invocation of a dispatch that fails (HTTP error, malformed
\* response, rate-limit signal) applies record_error to that provider:
\* error_count and total_requests go up by one, last_error_time is now.
C2_FailureRecordsError ==
    [][(Completes /\ last_record'.outcome \in {"error", "rate_limit"})
          => LET e == last_record'.engine
             IN  /\ health'[e].error_count = health[e].error_count + 1
                 /\ health'[e].total_requests = health[e].total_requests + 1
                 /\ health'[e].last_error_time = now]_vars

\* C3: in auto mode the call reaches the providers in the dispatcher's order,
\* passes those in cooldown without invoking them, passes those that return
\* nothing, stops at the first non-empty answer, returns exactly that list
\* (one provider's results, never a merge) and makes that provider last-used.
C3_AutoFirstNonEmpty ==
    (pc = "done" /\ Lower(preferred) = auto_word /\ engines # <<>>)
    => LET n == Len(trace)
       IN  /\ n <= Len(engines)
           /\ \A i \in 1..n :
                  /\ trace[i].engine = engines[i]
                  /\ trace[i].phase = "loop"
                  /\ Invoked(trace[i]) <=> ~trace[i].cooldown
           /\ \A i \in 1..(n - 1) : trace[i].kind \in {"skip", "empty", "raise"}
           /\ IF n > 0 /\ trace[n].kind = "hit"
              THEN /\ ret.status = "returned"
                   /\ ret.results # <<>>
                   /\ ret.results = last_record.result
                   /\ last_record.engine = trace[n].engine
                   /\ \A j \in 1..Len(ret.results) :
                          ret.results[j].source = source(trace[n].engine)
                   /\ last_used_engine = trace[n].engine
              ELSE /\ n = Len(engines)
                   /\ trace[n].kind \in {"skip", "empty", "raise"}
                   /\ ret = Returned(<<>>)

\* priorities 1, 2, 3: the first in cooldown, the second returns [], the third
\* one result
C3_Witness ==
    /\ engines = <<"GoogleSearch", "DuckDuckGoSearch", "BingSearch">>
    /\ pc = "done"
    /\ Lower(preferred) = auto_word
    /\ Len(trace) = 3
    /\ trace[1].kind = "skip" /\ trace[1].cooldown
    /\ trace[2].kind = "empty"
    /\ trace[3].kind = "hit"
    /\ ret = Returned(Items("BingSearch", 1))
    /\ last_used_engine = "BingSearch"

\* C4 as stated: whatever the preferred engine, the providers invoked in one
\* call are invoked in non-decreasing priority order.
C4_AnyPreferredInPriorityOrder ==
    \A i, j \in 1..Len(trace) :
        (i < j /\ Invoked(trace[i]) /\ Invoked(trace[j]))
        => priority(trace[i].engine) <= priority(trace[j].engine)

\* C4 amended: a preferred engine is invoked once, first, whatever its
\* priority; the priority loop then reaches the providers in the dispatcher's
\* order, which is non-decreasing in priority, and goes past a provider only
\* when it was unavailable, raised or returned nothing.
C4_LoopInPriorityOrder ==
    LET loop == LoopEntries
    IN  /\ \A i \in 1..Len(trace) : trace[i].phase = "preferred" => i = 1
        /\ Len(loop) <= Len(engines)
        /\ \A i \in 1..Len(loop) : loop[i].engine = engines[i]
        /\ \A i, j \in 1..Len(loop) :
               i < j => /\ priority(loop[i].engine) <= priority(loop[j].engine)
                        /\ loop[i].kind \in {"skip", "empty", "raise"}

\* a call whose preferred engine returned nothing went through the loop to
\* the third provider
C4_Witness ==
    /\ pc = "done"
    /\ Len(trace) = 4
    /\ trace[1].phase = "preferred" /\ trace[1].kind = "empty"
    /\ priority(trace[1].engine) > priority(trace[2].engine)
    /\ trace[4].kind = "hit"

\* C5: no exception of a provider invocation leaves the dispatcher, in the
\* preferred-engine step or in the loop.
C5_NoExceptionLeaves == ret.status # "raised"

\* the preferred-engine argument names no provider, or one in cooldown
PreferredUnusable(engine_name) ==
    /\ Lower(engine_name) # auto_word
    /\ \/ find_engine_by_name(engine_name) = "None"
       \/ IsInCooldown(find_engine_by_name(engine_name))

\* C6: a preferred engine that cannot be resolved or is in cooldown is not
\* invoked in the preferred step; the call goes on exactly as an auto call
\* does (the loop from its first provider, nothing invoked or recorded yet)
\* and no exception leaves a call that invoked no preferred engine.
C6_UnusablePreferredFallsThrough ==
    /\ [][(pc = "idle" /\ pc' # "idle" /\ engines # <<>> /\ PreferredUnusable(preferred'))
             => /\ pc' = "loop"
                /\ idx' = 1
                /\ trace' = <<>>
                /\ ret' = Pending
                /\ health' = health
                /\ last_used_engine' = last_used_engine]_vars
    /\ []((\A i \in 1..Len(trace) : trace[i].phase = "loop") => ret.status # "raised")

\* preferred "Google" in cooldown: the loop passed Google and a later provider
\* answered
C6_Witness ==
    /\ pc = "done"
    /\ Lower(preferred) = <<"g","o","o","g","l","e">>
    /\ Len(trace) >= 2
    /\ trace[1] = [engine |-> "GoogleSearch", phase |-> "loop", kind |-> "skip",
                   cooldown |-> TRUE]
    /\ ret.status = "returned"
    /\ ret.results # <<>>

\* the step in which a provider's search() returns [] to the dispatcher
ReturnsEmpty == Completes /\ trace'[Len(trace')].kind = "empty"

\* C7 as stated: a provider that returns [] without raising leaves its
\* error_count and last_error_time as they were, last_used_engine is kept and
\* the call goes on with the loop.
C7_EmptyLeavesHealth ==
    [][ReturnsEmpty
          => LET e == last_record'.engine
             IN  /\ health'[e].error_count = health[e].error_count
                 /\ health'[e].last_error_time = health[e].last_error_time
                 /\ last_used_engine' = last_used_engine
                 /\ pc' = "loop"]_vars

\* C7 amended: a provider that returns [] without raising gets no error
\* recorded: error_count does not grow (a provider that records its own
\* request as a success resets it to 0), last_error_time is as it was,
\* last_used_engine is kept and the call goes on with the next candidate.
C7_EmptyRecordsNoError ==
    [][ReturnsEmpty
          => LET e == last_record'.engine
             IN  /\ health'[e].error_count <= health[e].error_count
                 /\ health'[e].last_error_time = health[e].last_error_time
                 /\ last_used_engine' = last_used_engine
                 /\ pc' = "loop"
                 /\ idx' = IF pc = "loop_call" THEN idx + 1 ELSE 1
                 /\ ret' = Pending]_vars

\* DuckDuckGo, three errors behind it and its cooldown over, found nothing:
\* its error count is back at 0
C7_Witness ==
    /\ pc = "loop"
    /\ last_record.engine = "DuckDuckGoSearch"
    /\ last_record.outcome = "none"
    /\ trace # <<>>
    /\ trace[Len(trace)].kind = "empty"
    /\ health["DuckDuckGoSearch"].error_count = 0
    /\ health["DuckDuckGoSearch"].last_error_time = StartTime

\* every registered provider was passed, raised or returned nothing
AllProvidersFailed ==
    /\ \A e \in Registered :
           \E i \in 1..Len(trace) : trace[i].engine = e
    /\ \A i \in 1..Len(trace) : trace[i].kind \in {"skip", "empty", "raise"}

\* C8: when every provider was skipped, failed or returned nothing, search
\* returns an empty list and the response has success = true, zero results
\* and the explanatory message; it is never an error response.
C8_ExhaustionIsSuccessShaped ==
    (pc = "done" /\ engines # <<>> /\ AllProvidersFailed)
    => /\ ret = Returned(<<>>)
       /\ response.success
       /\ response.num_results = 0
       /\ response.message # ""
       /\ response.error = ""

\* C9: a dispatcher without providers answers with a failure, not with the
\* success-shaped zero-results response of exhaustion, and invokes nothing.
C9_NoProvidersIsFailure ==
    (pc = "done" /\ engines = <<>>)
    => /\ ~response.success
       /\ trace = <<>>

\* C10: at most SemaphoreCapacity = 30 requests are past the semaphore at any
\* moment, each of them holding one slot; while 30 are, no further request
\* gets to its initialization check or its dispatch before one of them has
\* released its slot.
C10_GateAdmitsAtMostCapacity ==
    /\ [](/\ Inside <= SemaphoreCapacity
          /\ sem_value = SemaphoreCapacity - Inside)
    /\ [][Inside = SemaphoreCapacity => Inside' <= Inside]_vars
    /\ [][ops'.sem_wait < ops.sem_wait => (sem_value > 0 /\ Inside' = Inside + 1)]_vars

\* thirty requests hold the slots, some of them searching, and another waits
C10_Witness ==
    /\ Inside = SemaphoreCapacity
    /\ ops.search >= 1
    /\ ops.sem_wait >= 1

\* C11: however the callers of _ensure_search_manager interleave, once the
\* dispatcher is set it stays set and no construction is tried again (so it
\* is constructed successfully at most once), and every caller that finds it
\* set goes on to its search at once, with no error response.
C11_ConstructedOnce ==
    /\ [][manager_ready
             => /\ manager_ready'
                /\ last_init_attempt' = last_init_attempt]_vars
    /\ [][(manager_ready /\ ops'.ensure < ops.ensure)
             => /\ ops'.search = ops.search + 1
                /\ sem_value' = sem_value
                /\ response' = response]_vars

\* the dispatcher was constructed while several callers were at the guard;
\* more than one of them is searching and others are still at the guard
C11_Witness ==
    /\ manager_ready
    /\ last_init_attempt = StartTime
    /\ ops.search >= 2
    /\ ops.ensure >= 2

\* a caller leaves the guard without a dispatcher
Refused == ops'.ensure < ops.ensure /\ ops'.search = ops.search

\* C12: a construction is tried only when init_cooldown = 30 seconds have
\* passed since the last attempt; a caller that finds no dispatcher before
\* that leaves at once with the "unavailable, try again later" response and
\* tries nothing; a caller that finds no dispatcher after that makes a new
\* attempt.
C12_InitCooldown ==
    [][/\ (last_init_attempt' # last_init_attempt \/ manager_ready' # manager_ready)
          => (now - last_init_attempt >= init_cooldown /\ last_init_attempt' = now)
       /\ (ops'.ensure < ops.ensure /\ ~manager_ready
             /\ now - last_init_attempt < init_cooldown)
          => /\ Refused
             /\ response' = error_response("Search manager unavailable, please try again later")
             /\ sem_value' = sem_value + 1
             /\ manager_ready' = manager_ready
             /\ last_init_attempt' = last_init_attempt
       /\ (ops'.ensure < ops.ensure /\ ~manager_ready
             /\ now - last_init_attempt >= init_cooldown)
          => last_init_attempt' = now]_vars

\* the first construction failed, its caller was told so, and an attempt
\* made one clock step later succeeded
C12_Witness ==
    /\ manager_ready
    /\ last_init_attempt = StartTime + TickStep
    /\ response = error_response("Search manager unavailable, please try again later")

\* C13: a search ended by the 60 second timeout gets the response labelled
\* "Search operation timed out"; a caller refused by the initialization guard
\* gets the one labelled "Search manager unavailable"; both have
\* success = false and a suggestion to retry, the two labels differ, and an
\* empty list returned by search() gets success = true.
C13_DistinctFailures ==
    /\ [][(ops'.search < ops.search /\ ret'.status = "timeout")
             => /\ response'.error = "Search operation timed out"
                /\ ~response'.success
                /\ response'.suggestion # ""]_vars
    /\ [][Refused
             => /\ response'.error = "Search manager unavailable, please try again later"
                /\ ~response'.success
                /\ response'.suggestion # ""]_vars
    /\ [][(ops'.search < ops.search /\ ret' = Returned(<<>>))
             => /\ response'.success
                /\ response'.error = ""
                /\ response'.num_results = 0
                /\ response'.message # ""]_vars
    /\ [](error_response("Search operation timed out").error
             # error_response("Search manager unavailable, please try again later").error)

\* a search has just timed out
C13_Witness ==
    /\ ret.status = "timeout"
    /\ response = error_response("Search operation timed out")
    /\ manager_ready


\* the last fetch_url call was a page-1 fetch / a page lookup
FirstPageCall == fetch_call.called /\ fetch_call.page_number <= 1
LookupCall    == fetch_call.called /\ fetch_call.page_number > 1

\* the methods a page-1 fetch may use, in the order of the code
MethodOrder(use_jina) ==
    (IF use_jina THEN <<"jina">> ELSE <<>>)
    \o (IF serper_api_key THEN <<"serper">> ELSE <<>>)
    \o <<"httpx">>

\* C14: a page-1 fetch invokes the methods in the order reader (jina, only
\* when asked for), scrape (serper, only with a key), direct HTTP (httpx); it
\* goes on exactly as long as the methods fail, invokes nothing after a
\* success, and a successful result carries the tag of the method that
\* succeeded.
C14_MethodsInOrder ==
    FirstPageCall
    => LET invoked == fetch_call.invoked
           order == MethodOrder(fetch_call.use_jina)
           n == Len(invoked)
       IN  /\ n >= 1
           /\ n <= Len(order)
           /\ \A i \in 1..n : invoked[i].method = order[i]
           /\ \A i \in 1..(n - 1) : ~invoked[i].success
           /\ invoked[n].success \/ n = Len(order)
           /\ fetch_call.result.success
              => (invoked[n].success /\ fetch_call.result.method = invoked[n].method)

\* the reader failed, the scrape API answered and direct HTTP was not tried
C14_Witness ==
    /\ FirstPageCall
    /\ fetch_call.invoked = <<[method |-> "jina", success |-> FALSE],
                              [method |-> "serper", success |-> TRUE]>>
    /\ fetch_call.result.success
    /\ fetch_call.result.method = "serper"

\* C15: every successful result of a page-1 fetch carries non-empty content.
C15_SuccessHasContent ==
    (FirstPageCall /\ fetch_call.result.success) => fetch_call.result.content # <<>>

\* a step of fetch_url (the clock's steps are the only others)
FetchStep == fetch_call'.called /\ loop_time' = loop_time

\* C16: a page-1 fetch all of whose methods failed returns one failure with
\* the error "All fetching methods failed" and no content, and leaves the
\* page cache as it was.
C16_AggregateFailure ==
    [][(FetchStep /\ fetch_call'.page_number <= 1
          /\ \A i \in 1..Len(fetch_call'.invoked) : ~fetch_call'.invoked[i].success)
          => /\ fetch_call'.result = Failure("All fetching methods failed")
             /\ fetch_call'.result.content = <<>>
             /\ ~fetch_call'.result.success
             /\ page_cache' = page_cache
             /\ sessions' = sessions]_vars

\* the three methods failed while the cache held an entry
C16_Witness ==
    /\ FirstPageCall
    /\ Len(fetch_call.invoked) = 3
    /\ \A i \in 1..3 : ~fetch_call.invoked[i].success
    /\ fetch_call.result.error = "All fetching methods failed"
    /\ page_cache # <<>>

\* the pages joined with seps[i] between page i and page i + 1
RECURSIVE rejoin(_, _, _)
rejoin(pages, seps, i) ==
    IF i > Len(pages) THEN <<>>
    ELSE IF i = Len(pages) THEN pages[i]
    ELSE pages[i] \o seps[i] \o rejoin(pages, seps, i + 1)

\* C17: the pages of a content, joined in order with the paragraph separator
\* between pages and with nothing between the chunks of a force-split
\* paragraph, are the content again (whichever of the two is put at each
\* joint).
C17_PagesRejoin ==
    split.done
    => \E seps \in [1..(Len(split.pages) - 1) -> {<<>>, paragraph_separator}] :
           rejoin(split.pages, seps, 1) = split.content

\* the unexpired entries of a URL, at the time of a step
Unexpired(url) ==
    {i \in 1..Len(page_cache) :
        page_cache[i].url = url /\ ~Expired(page_cache[i], loop_time)}

\* C18: a page lookup never serves an entry older than the TTL: after it no
\* entry with loop_time - created_at > cache_ttl is left, a page it returns
\* is a page of an unexpired entry of the URL, and when the URL has no
\* unexpired entry it answers with the cache-miss error.
C18_ExpiredNeverServed ==
    [][(FetchStep /\ fetch_call'.page_number > 1)
          => /\ \A i \in 1..Len(page_cache') : ~Expired(page_cache'[i], loop_time)
             /\ fetch_call'.result.success
                => \E i \in Unexpired(fetch_call'.url) :
                       /\ fetch_call'.page_number <= Len(page_cache[i].pages)
                       /\ fetch_call'.result.content
                              = page_cache[i].pages[fetch_call'.page_number]
             /\ Unexpired(fetch_call'.url) = {}
                => fetch_call'.result = Failure("Page cache not found")]_vars

\* a lookup swept the expired entry of its URL and reported a cache miss
C18_Witness ==
    /\ LookupCall
    /\ fetch_call.url \in fetch_call.swept
    /\ fetch_call.result = Failure("Page cache not found")
    /\ loop_time > cache_ttl

\* C19: a lookup for a page number beyond the page count of the URL's entry
\* answers with the invalid-page error, a lookup for a URL without an entry
\* with the cache-miss error; both are failure results, and every entry
\* the cache holds afterwards is an entry it held before, with the same
\* pages (the lookup only drops expired entries).
C19_LookupErrors ==
    [][(FetchStep /\ fetch_call'.page_number > 1)
          => LET url == fetch_call'.url
                 live == Unexpired(url)
             IN  /\ (live # {} /\ fetch_call'.page_number
                        > Len(page_cache[CHOOSE i \in live : \A j \in live : i <= j].pages))
                    => fetch_call'.result = Failure("Invalid page number")
                 /\ Matching(page_cache, url) = {}
                    => fetch_call'.result = Failure("Page cache not found")
                 /\ page_cache' = SelectSeq(page_cache,
                                            LAMBDA entry : ~Expired(entry, loop_time))]_vars

\* page 3 was asked of a URL whose entry has two pages
C19_Witness ==
    /\ LookupCall
    /\ fetch_call.page_number = 3
    /\ fetch_call.result = Failure("Invalid page number")
    /\ \E i \in 1..Len(page_cache) :
           /\ page_cache[i].url = fetch_call.url
           /\ Len(page_cache[i].pages) = 2

\* C20: a request for page N > 1 invokes no acquisition method and creates
\* no cache entry; it returns the N-th page of the first entry of the URL
\* left in the cache when 1 <= N <= its page count, and an error otherwise.
C20_LookupOnlyReadsCache ==
    [][(FetchStep /\ fetch_call'.page_number > 1)
          => LET url == fetch_call'.url
                 n == fetch_call'.page_number
                 found == Matching(page_cache', url)
             IN  /\ fetch_call'.invoked = <<>>
                 /\ sessions' = sessions
                 /\ Len(page_cache') <= Len(page_cache)
                 /\ IF found # {} /\ n <= Len(page_cache'[FirstMatching(page_cache', url)].pages)
                    THEN /\ fetch_call'.result.success
                         /\ fetch_call'.result.current_page = n
                         /\ fetch_call'.result.content
                                = page_cache'[FirstMatching(page_cache', url)].pages[n]
                    ELSE /\ ~fetch_call'.result.success
                         /\ fetch_call'.result.error # ""
                         /\ fetch_call'.result.content = <<>>]_vars

\* page 2 of a cached URL was served
C20_Witness ==
    /\ LookupCall
    /\ fetch_call.page_number = 2
    /\ fetch_call.result.success
    /\ fetch_call.result.content = <<"a", "a">>
    /\ fetch_call.invoked = <<>>

\* a page-1 fetch one of whose methods succeeded: fetch_call'.got is the
\* content that method gave
ContentFetched ==
    /\ FetchStep
    /\ fetch_call'.page_number <= 1
    /\ \E i \in 1..Len(fetch_call'.invoked) : fetch_call'.invoked[i].success

\* C21: a fetched content no longer than max_length is returned whole and
\* unchanged, with page count 1, current page 1 and not paginated, and no
\* cache entry is created; a longer content has its page sequence stored as
\* one new entry under a key no other entry has, and the result is page 1
\* of that sequence together with the total page count.
C21_DirectOrPaginated ==
    [][ContentFetched
          => LET r == fetch_call'.result
                 n == Len(page_cache)
             IN  IF Len(fetch_call'.got) <= fetch_call'.max_length
                 THEN /\ r.success
                      /\ r.content = fetch_call'.got
                      /\ r.pages = 1
                      /\ r.current_page = 1
                      /\ ~r.is_paginated
                      /\ page_cache' = page_cache
                 ELSE /\ Len(page_cache') = n + 1
                      /\ SubSeq(page_cache', 1, n) = page_cache
                      /\ \A i \in 1..n : page_cache[i].page_id # page_cache'[n + 1].page_id
                      /\ page_cache'[n + 1].url = fetch_call'.url
                      /\ page_cache'[n + 1].pages # <<>>
                      /\ r.success
                      /\ r.is_paginated
                      /\ r.current_page = 1
                      /\ r.pages = Len(page_cache'[n + 1].pages)
                      /\ r.content = page_cache'[n + 1].pages[1]]_vars
\* the scenario's content: its length and the average of its paragraphs
ScenarioContent ==
    /\ content_length(scenario.paragraphs) = Scenario.length
    /\ Len(scenario.paragraphs) = Scenario.paragraphs
    /\ \A i \in 1..Len(scenario.paragraphs) : scenario.paragraphs[i] >= 1

\* C22 as stated: a content of length 120000 made of blank-line-separated
\* paragraphs of average length 2000, paginated with max_length 50000, gives
\* exactly 3 pages, each of at most 50000 characters.
C22_ScenarioThreePages ==
    (scenario.done /\ ScenarioContent)
    => /\ Len(scenario.pages) = 3
       /\ \A i \in 1..Len(scenario.pages) : scenario.pages[i] <= Scenario.max_length

\* no paragraph of the content is longer than 15000 characters
ShortParagraphs ==
    \A i \in 1..Len(scenario.paragraphs) : scenario.paragraphs[i] <= 15000

\* C22, amended: the same when, moreover, no paragraph is empty or longer
\* than 15000 characters.
C22_ShortParagraphsThreePages ==
    (/\ scenario.done
     /\ ScenarioContent
     /\ ShortParagraphs)
    => /\ Len(scenario.pages) = 3
       /\ \A i \in 1..Len(scenario.pages) : scenario.pages[i] <= Scenario.max_length

\* a content whose longest paragraphs have 15000 characters was paginated
C22_Witness ==
    /\ scenario.done
    /\ ScenarioContent
    /\ ShortParagraphs
    /\ \E i \in 1..Len(scenario.paragraphs) : scenario.paragraphs[i] = 15000
    /\ Len(scenario.pages) = 3
\* a step that is a call of the get_available_engines tool / of get_search_stats
EnginesStep == status_call'.op = "get_available_engines"
StatsStep   == status_call'.op = "get_search_stats"

\* C23: a call that lists the provider statuses returns one status record
\* for each registered provider, in order, holding its name, priority,
\* availability, cooldown flag, error count, success rate, request total
\* and last success and error times as its health state has them; the call
\* changes no health state, and a second call with no search step between
\* returns the same counters.
C23_StatusPerProvider ==
    [][(EnginesStep /\ manager_ready)
          => /\ health' = health
             /\ Len(status_call'.engines) = Len(engines)
             /\ \A i \in 1..Len(status_call'.engines) :
                    status_call'.engines[i]
                        = get_status(engines[i], health[engines[i]], now)
             /\ status_call.op = "get_available_engines"
                => \A i \in 1..Len(status_call'.engines) :
                       /\ status_call'.engines[i].error_count
                              = status_call.engines[i].error_count
                       /\ status_call'.engines[i].total_requests
                              = status_call.engines[i].total_requests]_vars

\* the sum of a counter over a set of providers
RECURSIVE SetSum(_, _)
SetSum(S, field) ==
    IF S = {} THEN 0
    ELSE LET e == CHOOSE x \in S : TRUE
         IN  health[e][field] + SetSum(S \ {e}, field)

\* a step in which a provider's search() hands the dispatcher a non-empty
\* list
ProviderHit ==
    /\ pc \in {"preferred_call", "loop_call"}
    /\ pc' # pc
    /\ last_record'.result # <<>>

\* C24: get_search_stats reports the sums of the providers' total and
\* successful request counters, a success rate of 0 while no request was
\* counted (and successes over total as a percentage otherwise), the number
\* of providers that are available at the time, and as last used provider
\* the one whose search() most recently gave a search a non-empty list: that
\* field changes exactly in such a step, to that provider, and a search
\* that ends in exhaustion leaves it alone.
C24_StatsAreSums ==
    [][/\ StatsStep
          => LET stats == status_call'.stats
             IN  /\ stats.total_requests = SetSum(Registered, "total_requests")
                 /\ stats.successful_requests = SetSum(Registered, "successful_requests")
                 /\ stats.total_requests = 0 => stats.success_rate = 0
                 /\ stats.total_requests > 0
                    => /\ stats.success_rate * stats.total_requests * 2
                             <= stats.successful_requests * 2000 + stats.total_requests
                       /\ stats.success_rate * stats.total_requests * 2
                             >= stats.successful_requests * 2000 - stats.total_requests
                 /\ stats.available_engines
                        = Cardinality({e \in Registered : IsAvailable(e)})
                 /\ stats.last_used_engine = last_used_engine
       /\ ProviderHit => last_used_engine' = last_record'.engine
       /\ ~ProviderHit => last_used_engine' = last_used_engine]_vars

\* statistics were read when a provider in cooldown had counted requests
\* and another provider had answered a search
C24_Witness ==
    /\ status_call.op = "get_search_stats"
    /\ status_call.stats.total_requests > status_call.stats.successful_requests
    /\ status_call.stats.successful_requests > 0
    /\ status_call.stats.available_engines < status_call.stats.total_engines
    /\ status_call.stats.last_used_engine = "DuckDuckGoSearch"
    /\ status_call.stats.success_rate = 250
\* the preferred engine was invoked and returned no result
PreferredEmpty ==
    trace # <<>> /\ trace[1].phase = "preferred" /\ trace[1].kind = "empty"

\* the invocations of provider e in the call
Calls(e) == {i \in 1..Len(trace) : trace[i].engine = e /\ Invoked(trace[i])}

\* C25: a preferred provider that is available and returns nothing does not
\* end the search: the priority loop starts at the first provider and goes
\* through the whole sequence, the preferred provider included, passing
\* only the providers that are unavailable when reached, so that the
\* preferred provider is invoked a second time when the loop reaches it and
\* it is still available; it is invoked at most twice, every other provider
\* at most once, and the search ends with a returned list.
C25_PreferredTriedAgain ==
    PreferredEmpty
    => LET loop == LoopEntries
           e == trace[1].engine
       IN  /\ ~trace[1].cooldown
           /\ pc \in {"loop", "loop_call", "done"}
           /\ pc = "done" => ret.status = "returned"
           /\ \A i \in 1..Len(loop) :
                  /\ loop[i].engine = engines[i]
                  /\ Invoked(loop[i]) <=> ~loop[i].cooldown
           /\ (pc = "done" /\ trace[Len(trace)].kind # "hit")
              => Len(loop) = Len(engines)
           /\ Cardinality(Calls(e)) <= 2
           /\ \A other \in Registered \ {e} : Cardinality(Calls(other)) <= 1
           /\ (\E i \in 1..Len(loop) : loop[i].engine = e /\ ~loop[i].cooldown)
              => Cardinality(Calls(e)) = 2

\* the preferred provider returned nothing, was invoked again by the loop
\* after a provider of higher priority, and answered the second time
C25_Witness ==
    /\ pc = "done"
    /\ PreferredEmpty
    /\ Len(trace) = 3
    /\ trace[2].engine # trace[1].engine
    /\ Invoked(trace[2])
    /\ trace[3].engine = trace[1].engine
    /\ trace[3].kind = "hit"
\* a step that is a call of record_error on provider e
ErrorStep(e) ==
    /\ health_call'.op = "record_error"
    /\ health_call'.engine = e
    /\ health'[e] # health[e]

\* C26: record_error sets last_error_time to the time of the call and adds
\* exactly one to error_count and to total_requests; successful_requests
\* and last_success_time stay; the same call with the other value of
\* is_rate_limit gives the same health state, and at max_error_count errors
\* the cooldown lasts rate_limit_cooldown seconds whatever the flag.
C26_RecordErrorFrame ==
    [][\A e \in Classes :
          ErrorStep(e)
          => /\ health'[e].last_error_time = now
             /\ health'[e].error_count = health[e].error_count + 1
             /\ health'[e].total_requests = health[e].total_requests + 1
             /\ health'[e].successful_requests = health[e].successful_requests
             /\ health'[e].last_success_time = health[e].last_success_time
             /\ health'[e] = record_error(health[e], now, ~health_call'.is_rate_limit)
             /\ health'[e].error_count >= max_error_count
                => /\ is_in_cooldown(e, health'[e], now + rate_limit_cooldown(e) - 1)
                   /\ ~is_in_cooldown(e, health'[e], now + rate_limit_cooldown(e))
             /\ health'[e].error_count < max_error_count
                => ~is_in_cooldown(e, health'[e], now)]_vars

\* a rate-limit error was recorded as the first error after a success: the
\* provider is not in cooldown
C26_Witness ==
    \E e \in Classes :
        /\ health_call = [op |-> "record_error", engine |-> e, is_rate_limit |-> TRUE]
        /\ health[e].error_count = 1
        /\ health[e].successful_requests = 1
        /\ health[e].last_error_time > health[e].last_success_time
        /\ ~IsInCooldown(e)
\* the coroutines inside the locked body of a record call on provider e
InBody(e) ==
    {p \in Callers : callers[p].engine = e /\ callers[p].pc \notin {"idle", "acquire"}}

\* the update a record call makes when nothing interleaves with it
update_of(op) == IF op = "success" THEN "success" ELSE "error"

\* C27: record_success and record_error calls on one provider never
\* interleave their statements: at most one coroutine is inside the locked
\* body of a provider, and when it leaves, the health state is the state it
\* found with exactly its own update applied; after k record_error and m
\* record_success calls have returned, with none in progress, the provider's
\* total counter has grown by k + m and its success counter by m; and a
\* coroutine waiting for a provider's lock can take it whenever that lock
\* is free, whatever the locks of the other providers.
C27_NoLostUpdate ==
    /\ \A e \in Classes : Cardinality(InBody(e)) <= 1
    /\ \A p \in Callers :
           callers[p].pc = "release"
           => health[callers[p].engine]
                  = apply_record(callers[p].before, now, update_of(callers[p].op))
    /\ \A e \in Classes :
           InBody(e) = {}
           => /\ health[e].total_requests = calls[e].error + calls[e].success
              /\ health[e].successful_requests = calls[e].success
    /\ \A p \in Callers :
           (callers[p].pc = "acquire" /\ ~stats_lock[callers[p].engine])
           => ENABLED LockAcquire(p)

\* two calls on one provider have returned, one of each kind; a coroutine
\* holds the lock of the other provider and another waits for it
C27_Witness ==
    \E e \in Classes, other \in Classes :
        /\ e # other
        /\ calls[e] = [error |-> 1, success |-> 1]
        /\ health[e].total_requests = 2
        /\ stats_lock[other]
        /\ \E p \in Callers : callers[p].engine = other /\ callers[p].pc = "acquire"

----------------------------------------------------------------------------
(* C28 *)

\* an entry as a completed _process_content call stores it
Complete(entry) ==
    /\ entry.page_id \in 1..sessions
    /\ entry.url \in Urls
    /\ entry.created_at \in 0..loop_time
    /\ \E c \in {LongText, BlankText}, m \in LoopLengths :
           entry.pages = split_content_into_pages(c, m)

\* a step taken while coroutine p is between its sweep and its scan leaves
\* the cache and the other coroutines alone, and p's scan reads that cache
BetweenSweepAndScan(p) ==
    fetchers[p].pc = "scan" =>
        /\ page_cache' = page_cache
        /\ sessions' = sessions
        /\ \A q \in Fetchers \ {p} : fetchers'[q] = fetchers[q]
        /\ fetchers'[p] # fetchers[p] =>
               fetchers'[p] = [NoFetcher EXCEPT !.result =
                                  get_cached_page(page_cache, fetchers[p].url,
                                                  fetchers[p].page_number)]

\* C28: within a page lookup the sweep and the scan are atomic with respect
\* to concurrent fetch_url calls: between the two no other call inserts or
\* evicts, and every entry a lookup can see is one a _process_content call
\* stored whole
C28_LookupAtomic ==
    /\ [](\A i \in 1..Len(page_cache) : Complete(page_cache[i]))
    /\ [][\A p \in Fetchers : BetweenSweepAndScan(p)]_vars

\* a lookup has swept and is about to scan an entry of its URL while another
\* call waits for a method's answer
C28_Witness ==
    \E p \in Fetchers, q \in Fetchers :
        /\ p # q
        /\ fetchers[p].pc = "scan"
        /\ suspends(fetchers[q].pc)
        /\ Matching(page_cache, fetchers[p].url) # {}

----------------------------------------------------------------------------
(* C29 *)

\* the abandoned provider call completes in this step
AbandonedStep == abandoned.state = "running" /\ abandoned'.state = "completed"

\* C29: when a search has timed out and the provider call that was in flight
\* completes, the health update of that call is applied to the provider
C29_DiscardedCallStillRecorded ==
    [][AbandonedStep =>
           health'[abandoned.engine] =
               apply_record(health[abandoned.engine], now, abandoned'.update)]_vars

----------------------------------------------------------------------------
(* C30 *)

\* what the pages are to hold, in order: each paragraph that fits, and the
\* chunks of each paragraph that does not
RECURSIVE Pieces(_, _)
Pieces(paragraphs, max_length) ==
    IF paragraphs = <<>> THEN <<>>
    ELSE (IF Len(Head(paragraphs)) > max_length
          THEN chunks(Head(paragraphs), max_length)
          ELSE <<Head(paragraphs)>>)
         \o Pieces(Tail(paragraphs), max_length)

\* C30: no paragraph is split across pages unless it is longer than
\* max_length: each paragraph that fits is found whole in one page, each
\* longer one as its chunks of max_length characters (the last possibly
\* shorter), and the pages that hold them follow the order of the content
C30_ParagraphsWhole ==
    split.done
    => LET pieces == Pieces(str_split(split.content), split.max_length)
       IN  \E page_of \in [1..Len(pieces) -> 1..Len(split.pages)] :
               /\ \A i \in 1..Len(pieces), j \in 1..Len(pieces) :
                      i < j => page_of[i] <= page_of[j]
               /\ \A i \in 1..Len(pieces) :
                      Contains(split.pages[page_of[i]], pieces[i])

----------------------------------------------------------------------------
(* C31 *)

\* C31: every page the paginator returns has at most max_length characters,
\* whatever the content and whatever max_length >= 1
C31_PagesBounded ==
    (split.done /\ split.max_length >= 1)
    => \A i \in 1..Len(split.pages) : Len(split.pages[i]) <= split.max_length

\* a content longer than max_length was split, a paragraph of it was cut
\* into chunks, and a page has max_length characters exactly
C31_Witness ==
    /\ split.done
    /\ split.max_length >= 1
    /\ Len(split.content) > split.max_length
    /\ \E k \in 1..Len(str_split(split.content)) :
           Len(str_split(split.content)[k]) > split.max_length
    /\ Len(split.pages) >= 2
    /\ \E i \in 1..Len(split.pages) : Len(split.pages[i]) = split.max_length

----------------------------------------------------------------------------
(* C32 *)

\* the place of a provider in the order of registration
RegisteredAt(e) == CHOOSE k \in 1..Len(RegistrationOrder) : RegistrationOrder[k] = e

\* ascending by priority, providers of equal priority in registration order
SortedStable(seq) ==
    \A i \in 1..Len(seq), j \in 1..Len(seq) :
        i < j => \/ priority(seq[i]) < priority(seq[j])
                 \/ /\ priority(seq[i]) = priority(seq[j])
                    /\ RegisteredAt(seq[i]) < RegisteredAt(seq[j])

\* C32: from construction on the provider sequence is sorted ascending by
\* priority, providers of equal priority in the order of their registration,
\* and no search, status or statistics operation changes the sequence
C32_ProviderOrder ==
    /\ [](SortedStable(engines))
    /\ [][engines' = engines]_vars

\* a dispatcher with two pairs of providers of equal priority has answered a
\* search from its second provider, and a statistics call is answered
C32_Witness ==
    /\ engines = <<"GoogleSearch", "SerperSearch", "BingSearch", "BaiduSearch">>
    /\ last_used_engine = "SerperSearch"
    /\ status_call.op = "get_search_stats"

----------------------------------------------------------------------------
(* C33 *)

\* the name is the provider's identity, a prefix of it, or the identity
\* without its 'search' suffix, whatever the case of the letters
NamedAsListed(e, engine_name) ==
    LET identity == Lower(class_name(e))
        name == Lower(engine_name)
    IN  \/ name = identity
        \/ StartsWith(identity, name)
        \/ identity = name \o search_word

\* the name is a part of the provider's identity, whatever the case
NamedByPart(e, engine_name) ==
    Contains(Lower(class_name(e)), Lower(engine_name))

\* a search with a preferred engine other than "auto" starts
PreferredStart ==
    /\ pc = "idle"
    /\ pc' # "idle"
    /\ engines # <<>>
    /\ Lower(preferred') # auto_word

\* the first of the providers in M, in priority order
FirstOf(M) == engines[CHOOSE i \in M : \A j \in M : i <= j]

\* the preferred step of the search that starts goes to the first provider
\* of M when that one is available, and is skipped otherwise
ResolvesAmong(M) ==
    /\ pc' = "preferred_call" <=> (M # {} /\ IsAvailable(FirstOf(M)))
    /\ pc' = "preferred_call" => trace'[1].engine = FirstOf(M)
    /\ pc' # "preferred_call" => (pc' = "loop" /\ trace' = <<>>)

\* C33 as stated: the name resolves only to a provider it equals, is a
\* prefix of, or equals without the 'search' suffix
C33_ResolvesListedNames ==
    [][PreferredStart =>
           ResolvesAmong({i \in 1..Len(engines) :
                             NamedAsListed(engines[i], preferred')})]_vars

\* C33 amended: the name resolves to a provider whose identity contains it
C33_ResolvesNameParts ==
    [][PreferredStart =>
           ResolvesAmong({i \in 1..Len(engines) :
                             NamedByPart(engines[i], preferred')})]_vars

\* a search named a provider by a part that is no prefix of its identity
\* and that provider was invoked as the preferred one
C33_Witness ==
    /\ pc = "preferred_call"
    /\ preferred = <<"a","i">>
    /\ trace[1].engine = "BaiduSearch"
    /\ ~NamedAsListed("BaiduSearch", preferred)

----------------------------------------------------------------------------
(* C34 *)

\* C34: in every state and for every provider, error_count is not negative,
\* successful_requests is at most total_requests, total_requests is the
\* number of record_success calls plus the number of record_error calls
\* applied to it, and error_count is the number of record_error calls
\* applied since the last record_success
C34_HealthCounters ==
    \A e \in Classes :
        /\ health[e].error_count >= 0
        /\ health[e].successful_requests <= health[e].total_requests
        /\ health[e].total_requests = applied[e].success + applied[e].error
        /\ health[e].error_count = applied[e].since_success

\* a provider has had errors, a success, and errors again
C34_Witness ==
    \E e \in Classes :
        /\ applied[e].success = 1
        /\ applied[e].error = 3
        /\ applied[e].since_success = 2
        /\ health[e].total_requests = 4

----------------------------------------------------------------------------
(* C35 *)

\* the cooldown of provider e has elapsed and no success has reset its count
ElapsedWithoutSuccess(e) ==
    /\ health[e].error_count >= max_error_count
    /\ now - health[e].last_error_time >= rate_limit_cooldown(e)

\* C35: error_count goes down by a record_success only, never by the passing
\* of time: a provider whose cooldown has elapsed without a success is
\* available with error_count still at max_error_count or more, one more
\* record_error puts it in cooldown at once, and a record_error on a provider
\* in cooldown starts the cooldown again from the time of that error
C35_OnlySuccessResets ==
    /\ [](\A e \in Classes : ElapsedWithoutSuccess(e) => IsAvailable(e))
    /\ [][\A e \in Classes :
             /\ health'[e].error_count < health[e].error_count
                => /\ health'[e].successful_requests
                          = health[e].successful_requests + 1
                   /\ health'[e].error_count = 0
             /\ now' # now => health'[e].error_count = health[e].error_count
             /\ (ErrorStep(e) /\ health[e].error_count >= max_error_count)
                => /\ ~IsAvailable(e)'
                   /\ health'[e].last_error_time = now
                   /\ is_in_cooldown(e, health'[e], now + rate_limit_cooldown(e) - 1)
                   /\ ~is_in_cooldown(e, health'[e], now + rate_limit_cooldown(e))]_vars

\* a provider that never succeeded reached max_error_count errors, its
\* cooldown has elapsed and it is available with its count unchanged
C35_Witness ==
    \E e \in Classes :
        /\ health_call.op = "record_error"
        /\ health_call.engine = e
        /\ health[e].successful_requests = 0
        /\ health[e].error_count = max_error_count
        /\ now - health[e].last_error_time >= rate_limit_cooldown(e)
        /\ IsAvailable(e)

----------------------------------------------------------------------------
(* C36 *)

\* a slot is given back: the exit of async with self._search_semaphore
Released == sem_value' = sem_value + 1

\* C36: a request that took a slot of the semaphore gives it back on every
\* way out (results, nothing found, dispatcher unavailable, timeout,
\* exception): the slots held are those of the requests past the semaphore,
\* never more than the requests present, none when no request is present,
\* and a request leaves only by giving its slot back; slots are released
\* again and again unless no request holds one any more, and waiters are
\* admitted again and again unless no request waits any more
C36_SlotsReleased ==
    /\ [](/\ SemaphoreCapacity - sem_value = Inside
          /\ SemaphoreCapacity - sem_value <= Present
          /\ Present = 0 => sem_value = SemaphoreCapacity)
    /\ [][Present' < Present => Released]_vars
    /\ []<><<Released>>_vars \/ <>[](Inside = 0)
    /\ []<><<Wake>>_vars \/ <>[](ops.sem_wait = 0)

\* every request has left, the last one by a timeout of its search, and
\* every slot is back
C36_Witness ==
    /\ Present = 0
    /\ sem_value = SemaphoreCapacity
    /\ ret.status = "timeout"
    /\ response = error_response("Search operation timed out")

----------------------------------------------------------------------------
(* C37 *)

\* C37: a fetch_url call for page 1 that returns success False adds no
\* entry to the page cache; an entry is added only by a call that returns
\* success True with is_paginated True
C37_FailureCachesNothing ==
    [][fetch_call'.called /\ fetch_call'.page_number = 1
          => /\ ~fetch_call'.result.success => page_cache' = page_cache
             /\ page_cache' # page_cache
                    => /\ fetch_call'.result.success
                       /\ fetch_call'.result.is_paginated]_vars

----------------------------------------------------------------------------
(* C38 *)

\* C38: when fetch_url returns a paginated result, the page sequence it
\* stored has at least 2 pages, no stored page is empty, and the content
\* returned is the first stored page
C38_PaginatedPages ==
    [][(/\ page_cache' # page_cache
        /\ fetch_call'.page_number = 1
        /\ fetch_call'.result.success
        /\ fetch_call'.result.is_paginated)
          => LET entry == page_cache'[Len(page_cache')]
             IN  /\ Len(entry.pages) >= 2
                 /\ \A i \in 1..Len(entry.pages) : entry.pages[i] # <<>>
                 /\ fetch_call'.result.content = entry.pages[1]]_vars

----------------------------------------------------------------------------
(* C39 *)

\* the unexpired entry of a URL created first: page_id numbers the entries in the order
\* of their creation
EarliestCreated(url) ==
    CHOOSE i \in Unexpired(url) :
        \A j \in Unexpired(url) : page_cache[i].page_id <= page_cache[j].page_id

\* C39: a fetch_url call for page 1 replaces and removes no cache entry, so
\* several unexpired entries of one URL can be in the cache together; a page
\* lookup of the URL is answered from the unexpired entry created first,
\* whatever later fetches stored
C39_EarliestEntryServes ==
    [][/\ (FetchStep /\ fetch_call'.page_number = 1)
             => /\ Len(page_cache') >= Len(page_cache)
                /\ SubSeq(page_cache', 1, Len(page_cache)) = page_cache
       /\ (FetchStep /\ fetch_call'.page_number > 1
              /\ Unexpired(fetch_call'.url) # {})
             => LET entry == page_cache[EarliestCreated(fetch_call'.url)]
                    r == fetch_call'.result
                IN  IF fetch_call'.page_number <= Len(entry.pages)
                    THEN /\ r.success
                         /\ r.content = entry.pages[fetch_call'.page_number]
                         /\ r.pages = Len(entry.pages)
                    ELSE r = Failure("Invalid page number")]_vars

\* two unexpired entries of one URL are in the cache, their second pages
\* differ, and the lookup of page 2 was answered from the first
C39_Witness ==
    /\ Len(page_cache) = 2
    /\ page_cache[1].url = page_cache[2].url
    /\ Unexpired(page_cache[1].url) = {1, 2}
    /\ Len(page_cache[1].pages) >= 2
    /\ Len(page_cache[2].pages) >= 2
    /\ page_cache[1].pages[2] # page_cache[2].pages[2]
    /\ fetch_call.called
    /\ fetch_call.url = page_cache[1].url
    /\ fetch_call.page_number = 2
    /\ fetch_call.result.success
    /\ fetch_call.result.content = page_cache[1].pages[2]

----------------------------------------------------------------------------
(* C40 *)

\* the last call of fetch_url returned the whole content of its URL, not
\* paginated
FetchedWhole ==
    /\ fetch_call.called
    /\ fetch_call.page_number = 1
    /\ fetch_call.result.success
    /\ ~fetch_call.result.is_paginated

\* the next call asks for page 2 of the same URL
AsksPageTwo ==
    /\ FetchStep
    /\ fetch_call'.page_number = 2
    /\ fetch_call'.url = fetch_call.url

\* C40 as stated: after a successful fetch_url call for page 1 whose content
\* fitted in one page, a request for page 2 of the same URL returns the
\* cache-miss error
C40_PageTwoMisses ==
    [][(FetchedWhole /\ AsksPageTwo)
          => fetch_call'.result = Failure("Page cache not found")]_vars

\* C40: a fetch_url call for page 1 that returns its content not paginated
\* stores nothing; a request for page 2 of the same URL that follows it
\* returns the cache-miss error when the cache holds no unexpired entry of
\* the URL from an earlier fetch, and is answered from the first of those
\* entries otherwise, by its page 2 or by the invalid-page error
C40_PageTwoMissesUnlessCached ==
    [][/\ (FetchStep /\ fetch_call'.page_number = 1 /\ fetch_call'.result.success
              /\ ~fetch_call'.result.is_paginated)
             => page_cache' = page_cache
       /\ (FetchedWhole /\ AsksPageTwo)
             => LET url == fetch_call.url
                    r == fetch_call'.result
                IN  IF Unexpired(url) = {}
                    THEN r = Failure("Page cache not found")
                    ELSE /\ r.error # "Page cache not found"
                         /\ r.success
                                => r.content = page_cache[EarliestCreated(url)].pages[2]
                         /\ ~r.success => r = Failure("Invalid page number")]_vars

\* a fetch has just returned the whole content of a URL, not paginated, and
\* an entry of an earlier fetch of the URL is in the cache, unexpired: the
\* state in which page 2 of the URL is asked for next
C40_Witness ==
    /\ FetchedWhole
    /\ fetch_call.result.content # <<>>
    /\ Unexpired(fetch_call.url) # {}
    /\ Len(page_cache[EarliestCreated(fetch_call.url)].pages) >= 2

====
